---- MODULE Spec2Model ----
(***************************************************************************)
(* aws-inventory: the per-service inventory functions of res/network.py,   *)
(* res/db.py, res/analytics.py and res/integration.py, run against an      *)
(* AWS account whose content is chosen by Init.                            *)
(*                                                                         *)
(* res/glob.py (get_inventory) and three helpers of res/utils.py           *)
(* (resources_by_region, chunks_list, get_boto_session) are called by the  *)
(* sources but are not part of them; they are modelled from the            *)
(* specification (spec.md 4.1, 4.2, 7).                                    *)
(*                                                                         *)
(* Python values: a dict is a function over strings (a record), a list a   *)
(* sequence, a string holding "/" separators a sequence of tokens.         *)
(***************************************************************************)
EXTENDS Integers, Sequences, FiniteSets, TLC

VARIABLES
    aws,               \* the account as the AWS APIs answer for it
    selected_regions,  \* the regions the driver selected, in order
    nb_regions,        \* config.nb_regions
    nb_units_done,     \* config.nb_units_done
    op,                \* the inventory function that ran last
    ret,               \* what it returned: [kind, val]
    listed,            \* the outputs of its get_inventory calls, in order
    calls,             \* the AWS API calls it issued, in order
    sessions,          \* the process-wide sessions, by account id
    created            \* the sessions created so far, in order

vars == <<aws, selected_regions, nb_regions, nb_units_done, op, ret, listed, calls,
          sessions, created>>

-----------------------------------------------------------------------------
(* Bounds of the model. *)

MaxItems == 2        \* resources held by one region (Spec, SpecPage, SpecJoin, SpecTag)
MaxPageSize == 2     \* items per page of a list response (SpecPage)
MaxLbs == 21         \* load balancers held by one region (SpecChunk)
MaxZones == 11       \* hosted zones of the account (SpecChunk)
MaxUnits == 1        \* an inventory function starts while nb_units_done < MaxUnits
MaxCreated == 2      \* a session is asked for while fewer were created (SpecSession)

(* Program constants. *)

ZONE_CHUNK == 10     \* utils.chunks_list(inventory, 10)
LB_CHUNK == 20       \* utils.chunks_list([...], 20)

Regions == {"eu-west-1", "us-east-1"}
AllRegions == Regions \cup {"global"}

NamePool == <<"a", "b", "c", "d">>
Names == {NamePool[i] : i \in 1..MaxItems}

-----------------------------------------------------------------------------
(* Python dicts and lists. *)

Has(d, k) == k \in DOMAIN d

\* d.get(k, default)
GetD(d, k, default) == IF Has(d, k) THEN d[k] ELSE default

\* d[k] = v
Put(d, k, v) == [f \in DOMAIN d \cup {k} |-> IF f = k THEN v ELSE d[f]]

EmptyDict == [f \in {} |-> 0]

Min(a, b) == IF a < b THEN a ELSE b

RECURSIVE Flatten(_)
Flatten(ss) == IF ss = <<>> THEN <<>> ELSE Head(ss) \o Flatten(Tail(ss))

RECURSIVE SumSeq(_)
SumSeq(s) == IF s = <<>> THEN 0 ELSE Head(s) + SumSeq(Tail(s))

RECURSIVE SelectSeqBy(_, _, _)
SelectSeqBy(s, k, v) ==
    IF s = <<>> THEN <<>>
    ELSE IF Head(s)[k] = v THEN <<Head(s)>> \o SelectSeqBy(Tail(s), k, v)
         ELSE SelectSeqBy(Tail(s), k, v)

Range(s) == {s[i] : i \in DOMAIN s}

\* str.split(sep) on a string held as a sequence of tokens
RECURSIVE split(_, _)
split(s, sep) ==
    IF s = <<>> THEN << <<>> >>
    ELSE LET rest == split(Tail(s), sep)
         IN IF Head(s) = sep THEN << <<>> >> \o rest
            ELSE << <<Head(s)>> \o Head(rest) >> \o Tail(rest)

-----------------------------------------------------------------------------
(* The AWS APIs, as the sources read their answers. *)

Arn(region, name) == <<"arn", region, name>>

\* the key under which each list operation returns its items
ApiResultKey(cfg) ==
    CASE cfg.function_name = "get_rest_apis" -> "items"
      [] cfg.function_name \in {"get_apis", "list_distributions"} -> "Items"
      [] cfg.function_name = "list_hosted_zones" -> "HostedZones"
      [] cfg.function_name = "describe_load_balancers" ->
            IF cfg.aws_service = "elb" THEN "LoadBalancerDescriptions" ELSE "LoadBalancers"
      [] cfg.function_name = "describe_db_instances" -> "DBInstances"
      [] cfg.function_name = "describe_db_clusters" -> "DBClusters"
      [] cfg.function_name = "list_tables" -> "TableNames"
      [] cfg.function_name = "describe_cache_clusters" -> "CacheClusters"
      [] cfg.function_name = "describe_reserved_cache_nodes" -> "ReservedCacheNodes"
      [] cfg.function_name \in {"describe_clusters", "list_clusters"} -> "Clusters"
      [] cfg.function_name = "describe_reserved_nodes" -> "ReservedNodes"
      [] cfg.function_name = "list_domain_names" -> "DomainNames"
      [] cfg.function_name = "list_instance_fleets" -> "InstanceFleets"
      [] cfg.function_name = "list_instance_groups" -> "InstanceGroups"
      [] cfg.function_name = "list_streams" -> "StreamNames"
      [] cfg.function_name = "list_queues" -> "QueueUrls"
      [] cfg.function_name = "list_topics" -> "Topics"
      [] cfg.function_name = "list_platform_applications" -> "PlatformApplications"
      [] cfg.function_name = "list_archives" -> "Archives"
      [] cfg.function_name = "list_connections" -> "Connections"
      [] cfg.function_name = "list_event_buses" -> "EventBuses"
      [] cfg.function_name = "list_event_sources" -> "EventSources"
      [] cfg.function_name = "list_replays" -> "Replays"
      [] cfg.function_name = "list_rules" -> "Rules"

\* list operations whose items are plain strings
StringListing(cfg) == ApiResultKey(cfg) \in {"TableNames", "QueueUrls", "StreamNames"}

\* one item of a list response: the fields the sources read
ListingItem(cfg, region, name) ==
    CASE StringListing(cfg) -> name
      [] cfg.function_name = "list_domain_names" -> [DomainName |-> name]
      [] ApiResultKey(cfg) = "LoadBalancerDescriptions" -> [LoadBalancerName |-> name]
      [] ApiResultKey(cfg) = "LoadBalancers" ->
            [LoadBalancerArn |-> Arn(region, name), LoadBalancerName |-> name]
      [] cfg.function_name = "list_hosted_zones" -> [Id |-> <<"/", "hostedzone", "/", name>>]
      [] cfg.function_name = "describe_cache_clusters" ->
            [CacheClusterId |-> name, ARN |-> Arn(region, name)]
      [] cfg.function_name = "list_topics" -> [TopicArn |-> Arn(region, name)]
      [] cfg.function_name = "list_distributions" -> [Id |-> name, ARN |-> Arn(region, name)]
      [] cfg.function_name \in {"list_clusters", "list_instance_groups"} -> [Id |-> name]
      [] cfg.function_name = "list_archives" -> [ArchiveName |-> name]
      [] cfg.function_name = "list_replays" -> [ReplayName |-> name]
      [] OTHER -> [Name |-> name]

\* the resources a list operation finds in a region; the EMR sub-listings
\* hold one item per cluster, narrowed to ClusterId when it is given
Resources(cfg, region) ==
    IF Has(cfg.additional_parameters, "ClusterId")
    THEN SelectSeq(aws.items[region], LAMBDA n : n = cfg.additional_parameters.ClusterId)
    ELSE aws.items[region]

Listing(cfg, region, names) == [i \in 1..Len(names) |-> ListingItem(cfg, region, names[i])]

\* page `token` of the listing `all`, with the token of the next page when
\* one is left
Page(cfg, token, all) ==
    IF ~aws.schemaOK THEN [ResponseMetadata |-> <<>>]
    ELSE IF token * aws.pageSize < Len(all)
    THEN Put([f \in {ApiResultKey(cfg)} |->
                SubSeq(all, (token - 1) * aws.pageSize + 1, token * aws.pageSize)],
             "NextToken", token + 1)
    ELSE [f \in {ApiResultKey(cfg)} |-> SubSeq(all, (token - 1) * aws.pageSize + 1, Len(all))]

\* the response to one list request; token 1 is the first request
ListResponse(cfg, region, token) ==
    Page(cfg, token, Listing(cfg, region, Resources(cfg, region)))

\* what a detail operation returns about the resource `key` of `region`
DetailResponse(cfg, region, key) ==
    CASE cfg.detail_function = "describe_table" ->
            [Table |-> [TableName |-> key, TableArn |-> Arn(region, key)]]
      [] cfg.detail_function = "get_queue_attributes" ->
            [Attributes |-> [QueueArn |-> Arn(region, key)]]
      [] cfg.detail_function = "describe_stream" ->
            [StreamDescription |-> [StreamName |-> key, StreamARN |-> Arn(region, key)]]
      [] cfg.detail_function = "describe_elasticsearch_domain" ->
            [DomainStatus |-> [DomainName |-> key, ARN |-> Arn(region, key)]]
      [] cfg.detail_function = "describe_cluster" -> [Id |-> key, Arn |-> Arn(region, key)]
      [] cfg.detail_function = "describe_archive" ->
            [ArchiveName |-> key, Arn |-> Arn(region, key)]
      [] OTHER -> [Name |-> key, Arn |-> Arn(region, key)]

\* the detail responses matching `key`: one, or none
DetailLookup(cfg, region, key) ==
    IF key \in aws.undetailed THEN <<>> ELSE <<DetailResponse(cfg, region, key)>>

\* the calls of one kind ("list", "detail" or "tag") fail in one region, as
\* for a denied call or a service that is not enabled there
Fails(region, stage) == aws.fault.region = region /\ aws.fault.stage = stage

NoFault == [region |-> "none", stage |-> "none"]

TagsOf(region, name) == <<[Key |-> "origin", Value |-> <<region, name>>]>>

\* a tag response about one resource, its tags under `field`
TagResponse(region, name, field) ==
    IF ~aws.tagSchemaOK \/ name \in aws.untagged THEN EmptyDict
    ELSE [f \in {field} |-> TagsOf(region, name)]

\* list_tags_of_resource, list_queue_tags, list_tags_for_resource (SNS),
\* list_tags (ES), list_tags_for_stream: the tags of one resource
dynamodb_list_tags_of_resource(region, ResourceArn) == TagResponse(region, ResourceArn[3], "Tags")
sqs_list_queue_tags(region, QueueUrl) == TagResponse(region, QueueUrl, "Tags")
sns_list_tags_for_resource(region, ResourceArn) == TagResponse(region, ResourceArn[3], "Tags")
es_list_tags(region, ARN) == TagResponse(region, ARN[3], "TagList")
kinesis_list_tags_for_stream(region, StreamName) == TagResponse(region, StreamName, "Tags")

\* cloudfront.list_tags_for_resource: the tags under Tags.Items
cloudfront_list_tags_for_resource(Resource) ==
    IF ~aws.tagSchemaOK THEN EmptyDict
    ELSE IF Resource[3] \in aws.untagged THEN [Tags |-> EmptyDict]
    ELSE [Tags |-> [Items |-> TagsOf("global", Resource[3])]]

OrphanName == "zz"

\* a tag response about several resources: one entry per tagged resource,
\* each naming its resource under `key`, and possibly an entry for a
\* resource that was not asked for
BatchTagResponse(region, ids, names, key, orphanId, field) ==
    IF ~aws.tagSchemaOK THEN EmptyDict
    ELSE [f \in {field} |->
            (IF aws.orphanTag
             THEN <<Put([g \in {key} |-> orphanId], "Tags", TagsOf(region, OrphanName))>>
             ELSE <<>>) \o
            SelectSeq([i \in 1..Len(ids) |->
                          Put([g \in {key} |-> ids[i]], "Tags", TagsOf(region, names[i]))],
                      LAMBDA e : e.Tags[1].Value[2] \notin aws.untagged)]

\* route53.list_tags_for_resources(ResourceType="hostedzone", ResourceIds=...)
route53_list_tags_for_resources(ResourceIds) ==
    BatchTagResponse("global", ResourceIds, [i \in 1..Len(ResourceIds) |-> ResourceIds[i][1]],
                     "ResourceId", <<OrphanName>>, "ResourceTagSets")

\* a faulty variant of describe_tags: the client asked is one of us-east-1
describe_tags_one_client(service, region, chunk) ==
    IF service = "elb"
    THEN BatchTagResponse("us-east-1", chunk, chunk, "LoadBalancerName", OrphanName,
                          "TagDescriptions")
    ELSE BatchTagResponse("us-east-1", chunk, [i \in 1..Len(chunk) |-> chunk[i][3]],
                          "ResourceArn", Arn(region, OrphanName), "TagDescriptions")

\* elb.describe_tags(LoadBalancerNames=...), elbv2.describe_tags(ResourceArns=...)
describe_tags(service, region, chunk) ==
    IF service = "elb"
    THEN BatchTagResponse(region, chunk, chunk, "LoadBalancerName", OrphanName,
                          "TagDescriptions")
    ELSE BatchTagResponse(region, chunk, [i \in 1..Len(chunk) |-> chunk[i][3]],
                          "ResourceArn", Arn(region, OrphanName), "TagDescriptions")

\* resourcegroupstaggingapi.get_resources(ResourceARNList=...): one mapping
\* per tagged resource asked for
get_resources(region, ResourceARNList) ==
    IF ~aws.tagSchemaOK THEN EmptyDict
    ELSE [ResourceTagMappingList |->
            SelectSeq([i \in 1..Len(ResourceARNList) |->
                          [ResourceARN |-> ResourceARNList[i],
                           Tags |-> TagsOf(region, ResourceARNList[i][3])]],
                      LAMBDA e : e.ResourceARN[3] \notin aws.untagged)]

-----------------------------------------------------------------------------
(* res/utils.py *)

\* progress(region_name): the new value of config.nb_units_done
progress(done, region_name) ==
    IF region_name = "global" THEN done + nb_regions ELSE done + 1

\* resources_by_region(resources): the records grouped by RegionName, the
\* groups in the order their region first appears (a dict keeps insertion order)
RECURSIVE region_order(_, _)
region_order(resources, seen) ==
    IF resources = <<>> THEN <<>>
    ELSE IF Head(resources).RegionName \in seen THEN region_order(Tail(resources), seen)
    ELSE <<Head(resources).RegionName>> \o
         region_order(Tail(resources), seen \cup {Head(resources).RegionName})

group_by(resources, order) ==
    [i \in 1..Len(order) |->
        [region |-> order[i], resources |-> SelectSeqBy(resources, "RegionName", order[i])]]

resources_by_region(resources) == group_by(resources, region_order(resources, {}))

\* chunks_list(l, n): successive slices of at most n items
chunks_list(l, n) ==
    [i \in 1..((Len(l) + n - 1) \div n) |-> SubSeq(l, (i - 1) * n + 1, Min(i * n, Len(l)))]

-----------------------------------------------------------------------------
(* res/glob.py: the generic resource enumerator *)

\* the keyword arguments of get_inventory and their defaults
get_inventory_defaults ==
    [aws_service |-> "", aws_region |-> "all", function_name |-> "", key_get |-> "",
     detail_function |-> "", join_key |-> "", detail_join_key |-> "",
     detail_get_key |-> "", pagination |-> FALSE, pagination_detail |-> FALSE,
     additional_parameters |-> EmptyDict, detail_additional_parameters |-> EmptyDict]

\* one list request, and whether its response carried a continuation token
list_call(cfg, region, token, resp) ==
    [api |-> cfg.function_name, region |-> region, token |-> token,
     has_token |-> Has(resp, "NextToken")]

\* the list operation in one region: one request, or with pagination one
\* request per page, following the continuation token until none is returned
RECURSIVE paginate(_, _, _)
RECURSIVE next_page(_, _, _, _)
paginate(cfg, region, token) == next_page(cfg, region, token, ListResponse(cfg, region, token))

following(page, call, rest) == [items |-> page \o rest.items, calls |-> <<call>> \o rest.calls]

next_page(cfg, region, token, resp) ==
    IF cfg.pagination /\ Has(resp, "NextToken")
    THEN following(GetD(resp, cfg.key_get, <<>>), list_call(cfg, region, token, resp),
                   paginate(cfg, region, resp.NextToken))
    ELSE [items |-> GetD(resp, cfg.key_get, <<>>),
          calls |-> <<list_call(cfg, region, token, resp)>>]

\* the value that correlates a listed item with its detail
join_value(cfg, item) ==
    IF StringListing(cfg) \/ cfg.join_key = "" THEN item ELSE item[cfg.join_key]

\* the listing fields of an item
listing_fields(cfg, item) ==
    IF ~StringListing(cfg) THEN item
    ELSE IF cfg.join_key = "" THEN EmptyDict
    ELSE [f \in {cfg.join_key} |-> item]

\* the detail merged in under detail_get_key, or replacing the item when that
\* key is empty; an item without a matching detail keeps its listing fields
merge_detail(cfg, base, found) ==
    IF Len(found) = 0 THEN base
    ELSE IF cfg.detail_get_key = "" THEN found[1]
    ELSE IF Has(found[1], cfg.detail_get_key)
    THEN Put(base, cfg.detail_get_key, found[1][cfg.detail_get_key])
    ELSE base

\* the detail call made for a listed item
detail_of(cfg, region, item) == DetailLookup(cfg, region, join_value(cfg, item))

\* the record of one listed item, tagged with the region that listed it
get_inventory_detail(cfg, region, item) ==
    Put(merge_detail(cfg, listing_fields(cfg, item),
                     IF cfg.detail_function = "" THEN <<>> ELSE detail_of(cfg, region, item)),
        "RegionName", region)

region_records(cfg, region, l) ==
    [items |-> [i \in 1..Len(l.items) |-> get_inventory_detail(cfg, region, l.items[i])],
     raised |-> FALSE,
     calls |-> l.calls \o
               (IF cfg.detail_function = "" THEN <<>>
                ELSE [i \in 1..Len(l.items) |->
                        [api |-> cfg.detail_function, region |-> region,
                         key |-> join_value(cfg, l.items[i])]])]

\* a list or detail call that fails ends the enumeration with the failure
failed_listing(cfg, region) ==
    [items |-> <<>>, raised |-> TRUE,
     calls |-> <<[api |-> cfg.function_name, region |-> region, token |-> 1,
                  has_token |-> FALSE]>>]

failed_detail(cfg, region, l) ==
    [items |-> <<>>, raised |-> TRUE,
     calls |-> l.calls \o <<[api |-> cfg.detail_function, region |-> region,
                             key |-> join_value(cfg, l.items[1])]>>]

detailed(cfg, region, l) ==
    IF cfg.detail_function # "" /\ Len(l.items) > 0 /\ Fails(region, "detail")
    THEN failed_detail(cfg, region, l)
    ELSE region_records(cfg, region, l)

get_inventory_region(cfg, region) ==
    IF Fails(region, "list") THEN failed_listing(cfg, region)
    ELSE detailed(cfg, region, paginate(cfg, region, 1))

RECURSIVE progress_all(_, _)
progress_all(done, region_list) ==
    IF region_list = <<>> THEN done
    ELSE progress_all(progress(done, Head(region_list)), Tail(region_list))

\* the regions get_inventory queries
region_list(cfg, selected) == IF cfg.aws_region = "global" THEN <<"global">> ELSE selected

\* the regions are processed in turn, up to the first one that fails
first_raised(per) ==
    IF \A i \in DOMAIN per : ~per[i].raised THEN Len(per) + 1
    ELSE CHOOSE i \in DOMAIN per : per[i].raised /\ \A j \in 1..(i - 1) : ~per[j].raised

collect_until(regions, per, n) ==
    [items |-> Flatten([i \in 1..(n - 1) |-> per[i].items]),
     calls |-> Flatten([i \in 1..Min(n, Len(per)) |-> per[i].calls]),
     units |-> progress_all(0, SubSeq(regions, 1, n - 1)),
     raised |-> n <= Len(per)]

collect(regions, per) == collect_until(regions, per, first_raised(per))

\* get_inventory(..., selected_regions = selected, **cfg): the records, the
\* calls issued, and the units added to config.nb_units_done
get_inventory(cfg, selected) ==
    collect(region_list(cfg, selected),
            [i \in 1..Len(region_list(cfg, selected)) |->
                get_inventory_region(cfg, region_list(cfg, selected)[i])])

-----------------------------------------------------------------------------
(* Statement sequencing: a loop is a sequence of steps, each appending     *)
(* records to the inventory and issuing calls, and it stops at the first   *)
(* step that raises.                                                       *)

None == "None"

\* a statement that appends recs and issues the calls cs; exc is the
\* exception it raises, None when it completes
Step(exc, recs, cs) == [ok |-> exc = None, exc |-> exc, recs |-> recs, calls |-> cs]

\* a faulty variant of api_step: the failure of the call is swallowed
api_step_swallowed(region, step) ==
    IF step.calls # <<>> /\ Fails(region, "tag") THEN Step(None, <<>>, step.calls)
    ELSE step

\* a statement whose API call fails in `region` raises the client's error
api_step(region, step) ==
    IF step.calls # <<>> /\ Fails(region, "tag") THEN Step("ClientError", <<>>, step.calls)
    ELSE step

first_bad(steps) ==
    IF \A i \in DOMAIN steps : steps[i].ok THEN Len(steps) + 1
    ELSE CHOOSE i \in DOMAIN steps : ~steps[i].ok /\ \A j \in 1..(i - 1) : steps[j].ok

run_steps(steps) ==
    [raised |-> first_bad(steps) <= Len(steps),
     exc |-> IF first_bad(steps) <= Len(steps) THEN steps[first_bad(steps)].exc ELSE None,
     recs |-> Flatten([i \in 1..(first_bad(steps) - 1) |-> steps[i].recs]),
     calls |-> Flatten([i \in 1..Min(first_bad(steps), Len(steps)) |-> steps[i].calls])]

\* session.client(service, region_name=region)
open_client(service, region) ==
    Step(None, <<>>, <<[api |-> "client", service |-> service, region |-> region]>>)

\* a faulty variant of region_steps: the groups are taken from the last one
region_steps_backwards(service, groups, item_steps) ==
    Flatten([g \in 1..Len(groups) |->
        <<open_client(service, groups[Len(groups) + 1 - g].region)>> \o
        item_steps[Len(groups) + 1 - g]])

\* the steps of `for region, resources in groups.items(): <open a client>;
\* for resource in resources: <item step>`, item_steps[g][i] being the step
\* of the i-th resource of the g-th group
region_steps(service, groups, item_steps) ==
    Flatten([g \in 1..Len(groups) |->
        <<open_client(service, groups[g].region)>> \o item_steps[g]])

\* what an inventory function hands back, and what it did meanwhile; an empty
\* dict and an empty list are the same TLA+ value, so a returned dict comes
\* with the Python type of each of its values
ReturnTyped(kind, val, types, ls, cs, units) ==
    [kind |-> kind, val |-> val, types |-> types, listed |-> ls, calls |-> cs,
     units |-> units]

Return(kind, val, ls, cs, units) ==
    ReturnTyped(kind, val, IF kind = "dict" THEN [k \in DOMAIN val |-> "list"] ELSE EmptyDict,
                ls, cs, units)

\* return get_inventory(...)
ReturnListed(e) ==
    IF e.raised THEN Return("raise", "ClientError", <<>>, e.calls, e.units)
    ELSE Return("list", e.items, <<e.items>>, e.calls, e.units)

\* the failure of a get_inventory call propagates
ReturnRaised(e) == Return("raise", "ClientError", <<>>, e.calls, e.units)

\* return inventory, filled by the post-pass r over the listing e, unless a
\* step of the post-pass raised
ReturnInventory(r, e) ==
    Return(IF r.raised THEN "raise" ELSE "list", IF r.raised THEN r.exc ELSE r.recs,
           <<e.items>>, e.calls \o r.calls, e.units)

\* return a dict of the listings `parts` under the names `keys`
ReturnDictUntil(keys, parts, n) ==
    IF n <= Len(parts)
    THEN Return("raise", "ClientError", [i \in 1..(n - 1) |-> parts[i].items],
                Flatten([i \in 1..n |-> parts[i].calls]),
                SumSeq([i \in 1..n |-> parts[i].units]))
    ELSE Return("dict",
                [k \in Range(keys) |-> parts[CHOOSE i \in DOMAIN keys : keys[i] = k].items],
                [i \in DOMAIN parts |-> parts[i].items],
                Flatten([i \in DOMAIN parts |-> parts[i].calls]),
                SumSeq([i \in DOMAIN parts |-> parts[i].units]))

ReturnDict(keys, parts) == ReturnDictUntil(keys, parts, first_raised(parts))

\* a faulty variant of matching: the keys are not compared
matching_any(tags, tag_key, value) == 1..Len(tags)

\* the tag results an item correlates with: if key(x) == t[tag_key]
matching(tags, tag_key, value) == {j \in 1..Len(tags) : tags[j][tag_key] = value}

SetMax(S) == CHOOSE x \in S : \A y \in S : y <= x

\* a faulty variant of tag_item: the tagged item keeps its tags only
tag_item_tags_only(item, found, tag_values) ==
    IF found = {} THEN item ELSE [Tags |-> tag_values[SetMax(found)]]

\* x["Tags"] = <tags of t> for every matching t in turn: the last one stays
tag_item(item, found, tag_values) ==
    IF found = {} THEN item ELSE Put(item, "Tags", tag_values[SetMax(found)])

\* for t in tags: for x in items: if key(x) == t[tag_key]: x["Tags"] = <tags of t>
\* keys[i] is key(items[i]), tag_values[j] the tags of tags[j]
apply_tags(items, keys, tags, tag_key, tag_values) ==
    [i \in 1..Len(items) |->
        tag_item(items[i], matching(tags, tag_key, keys[i]), tag_values)]

-----------------------------------------------------------------------------
(* res/network.py *)

get_apigateway_inventory(selected) ==
    ReturnListed(get_inventory([get_inventory_defaults EXCEPT
        !.aws_service = "apigateway", !.aws_region = "all",
        !.function_name = "get_rest_apis", !.key_get = "items",
        !.pagination = TRUE], selected))

\* a faulty variant of get_apigatewayv2_inventory: the items are read under
\* the key of the v1 API, "items"
get_apigatewayv2_inventory_v1_key(selected) ==
    ReturnListed(get_inventory([get_inventory_defaults EXCEPT
        !.aws_service = "apigatewayv2", !.aws_region = "all",
        !.function_name = "get_apis", !.key_get = "items",
        !.pagination = TRUE], selected))

get_apigatewayv2_inventory(selected) ==
    ReturnListed(get_inventory([get_inventory_defaults EXCEPT
        !.aws_service = "apigatewayv2", !.aws_region = "all",
        !.function_name = "get_apis", !.key_get = "Items",
        !.pagination = TRUE], selected))

get_cloudfront_inventory(selected) ==
    LET service == "cloudfront"
        call(distribution) == [api |-> "list_tags_for_resource", region |-> "global",
                               arg |-> distribution.ARN]
        \* distribution["Tags"] = resp.get("Tags").get("Items")
        tag(distribution, resp) ==
            IF ~Has(resp, "Tags") THEN Step("AttributeError", <<>>, <<call(distribution)>>)
            ELSE Step(None, <<Put(distribution, "Tags", GetD(resp.Tags, "Items", None))>>,
                      <<call(distribution)>>)
        tag_step(distribution) ==
            tag(distribution, cloudfront_list_tags_for_resource(distribution.ARN))
        post_pass(e) ==
            IF e.raised THEN ReturnRaised(e) ELSE
            IF Len(e.items) > 0
            THEN ReturnInventory(
                     run_steps(<<open_client(service, "global")>> \o
                               [i \in 1..Len(e.items) |->
                                   api_step("global", tag_step(e.items[i]))]),
                     e)
            ELSE Return("list", <<>>, <<e.items>>, e.calls, e.units)
    IN post_pass(get_inventory([get_inventory_defaults EXCEPT
            !.aws_service = service, !.aws_region = "global",
            !.function_name = "list_distributions", !.key_get = "Items",
            !.pagination = TRUE], selected))

\* z["Id"].split("/")[2]
zone_id(z) == split(z.Id, "/")[3]

\* a faulty variant of zone_chunks: chunks one zone too long
zone_chunks_too_long(inventory) == chunks_list(inventory, ZONE_CHUNK + 1)

\* the chunks of hosted zones sent to list_tags_for_resources
zone_chunks(inventory) == chunks_list(inventory, ZONE_CHUNK)

get_route53_inventory_zones(selected) ==
    LET service == "route53"
        ids(chunk) == [i \in 1..Len(chunk) |-> zone_id(chunk[i])]
        \* route53.list_tags_for_resources(...)["ResourceTagSets"]
        chunk_step(chunk, resp) ==
            Step(IF Has(resp, "ResourceTagSets") THEN None ELSE "KeyError", <<>>,
                 <<[api |-> "list_tags_for_resources", region |-> "global",
                    ids |-> ids(chunk)]>>)
        with_tags(zones, tags) ==
            apply_tags(zones, [i \in 1..Len(zones) |-> zone_id(zones[i])], tags,
                       "ResourceId", [j \in 1..Len(tags) |-> tags[j].Tags])
        tagged(e, fetched, resps) ==
            IF fetched.raised
            THEN Return("raise", fetched.exc, <<e.items>>, e.calls \o fetched.calls, e.units)
            ELSE Return("list",
                        with_tags(e.items,
                                  Flatten([c \in 1..Len(resps) |-> resps[c].ResourceTagSets])),
                        <<e.items>>, e.calls \o fetched.calls, e.units)
        fetch(e, chunks, resps) ==
            tagged(e, run_steps(<<open_client(service, "global")>> \o
                                [c \in 1..Len(chunks) |->
                                    api_step("global", chunk_step(chunks[c], resps[c]))]),
                   resps)
        respond(e, chunks) ==
            fetch(e, chunks,
                  [c \in 1..Len(chunks) |-> route53_list_tags_for_resources(ids(chunks[c]))])
        post_pass(e) ==
            IF e.raised THEN ReturnRaised(e) ELSE
            IF Len(e.items) > 0 THEN respond(e, zone_chunks(e.items)) ELSE ReturnListed(e)
    IN post_pass(get_inventory([get_inventory_defaults EXCEPT
            !.aws_service = service, !.aws_region = "global",
            !.function_name = "list_hosted_zones", !.key_get = "HostedZones",
            !.pagination = TRUE], selected))

\* a faulty variant of lb_chunks: chunks one load balancer too long
lb_chunks_too_long(lbs, join_key) ==
    chunks_list([i \in 1..Len(lbs) |-> lbs[i][join_key]], LB_CHUNK + 1)

\* the chunks of join-key values sent to describe_tags for one region
lb_chunks(lbs, join_key) == chunks_list([i \in 1..Len(lbs) |-> lbs[i][join_key]], LB_CHUNK)

\* _retrieve_lb_tags(oId, profile, service, lb_list): the inventory it
\* returns, or that it raised, and the calls it issued
retrieve_lb_tags(service, lb_list) ==
    LET join_key == IF service = "elb" THEN "LoadBalancerName" ELSE "LoadBalancerArn"
        tag_key == IF service = "elb" THEN join_key ELSE "ResourceArn"
        tag_param == IF service = "elb" THEN "LoadBalancerNames" ELSE "ResourceArns"
        \* region_tags.extend(resp.get('TagDescriptions'))
        chunk_step(region, chunk, resp) ==
            Step(IF Has(resp, "TagDescriptions") THEN None ELSE "TypeError", <<>>,
                 <<[api |-> "describe_tags", region |-> region, param |-> tag_param,
                    ids |-> chunk]>>)
        with_tags(lbs, tags) ==
            apply_tags(lbs, [i \in 1..Len(lbs) |-> lbs[i][join_key]], tags, tag_key,
                       [j \in 1..Len(tags) |-> GetD(tags[j], "Tags", <<>>)])
        tagged(lbs, fetched, resps) ==
            IF fetched.raised THEN Step(fetched.exc, <<>>, fetched.calls)
            ELSE Step(None,
                      with_tags(lbs,
                                Flatten([c \in 1..Len(resps) |-> resps[c].TagDescriptions])),
                      fetched.calls)
        fetch(region, lbs, chunks, resps) ==
            tagged(lbs,
                   run_steps(<<open_client(service, region)>> \o
                             [c \in 1..Len(chunks) |->
                                 api_step(region, chunk_step(region, chunks[c], resps[c]))]),
                   resps)
        respond(region, lbs, chunks) ==
            fetch(region, lbs, chunks,
                  [c \in 1..Len(chunks) |-> describe_tags(service, region, chunks[c])])
        group(g) == respond(g.region, g.resources, lb_chunks(g.resources, join_key))
        groups(lbs_by_region) ==
            run_steps([g \in 1..Len(lbs_by_region) |-> group(lbs_by_region[g])])
    IN groups(resources_by_region(lb_list))

\* return _retrieve_lb_tags(oId, profile, service, lb_list)
ReturnLbTags(service, e) ==
    IF e.raised THEN ReturnRaised(e) ELSE ReturnInventory(retrieve_lb_tags(service, e.items), e)

get_elb_inventory(selected) ==
    ReturnLbTags("elb", get_inventory([get_inventory_defaults EXCEPT
        !.aws_service = "elb", !.aws_region = "all",
        !.function_name = "describe_load_balancers",
        !.key_get = "LoadBalancerDescriptions",
        !.pagination = TRUE], selected))

get_elbv2_inventory(selected) ==
    ReturnLbTags("elbv2", get_inventory([get_inventory_defaults EXCEPT
        !.aws_service = "elbv2", !.aws_region = "all",
        !.function_name = "describe_load_balancers", !.key_get = "LoadBalancers",
        !.pagination = TRUE], selected))

-----------------------------------------------------------------------------
(* res/db.py *)

get_rds_inventory(selected) ==
    ReturnDict(<<"rds-instances", "rds-clusters">>,
        <<get_inventory([get_inventory_defaults EXCEPT
            !.aws_service = "rds", !.aws_region = "all",
            !.function_name = "describe_db_instances", !.key_get = "DBInstances",
            !.pagination = TRUE], selected),
          get_inventory([get_inventory_defaults EXCEPT
            !.aws_service = "rds", !.aws_region = "all",
            !.function_name = "describe_db_clusters", !.key_get = "DBClusters",
            !.pagination = TRUE], selected)>>)

get_dynamodb_inventory(selected) ==
    LET service == "dynamodb"
        \* table["Tags"] = dynamodb.list_tags_of_resource(
        \*     ResourceArn=table["Table"]["TableArn"]).get("Tags", [])
        tag_step(region, table) ==
            IF ~Has(table, "Table") THEN Step("KeyError", <<>>, <<>>)
            ELSE Step(None,
                      <<Put(table, "Tags",
                            GetD(dynamodb_list_tags_of_resource(region, table.Table.TableArn),
                                 "Tags", <<>>))>>,
                      <<[api |-> "list_tags_of_resource", region |-> region,
                         arg |-> table.Table.TableArn]>>)
        steps_of(groups) ==
            [g \in 1..Len(groups) |->
                [i \in 1..Len(groups[g].resources) |->
                    api_step(groups[g].region,
                             tag_step(groups[g].region, groups[g].resources[i]))]]
        tag_all(e, groups) ==
            ReturnInventory(run_steps(region_steps(service, groups, steps_of(groups))), e)
        post_pass(e) ==
            IF e.raised THEN ReturnRaised(e) ELSE tag_all(e, resources_by_region(e.items))
    IN post_pass(get_inventory([get_inventory_defaults EXCEPT
            !.aws_service = service, !.aws_region = "all",
            !.function_name = "list_tables", !.key_get = "TableNames",
            !.detail_function = "describe_table", !.join_key = "TableName",
            !.detail_join_key = "TableName", !.detail_get_key = "Table",
            !.pagination = TRUE], selected))

get_neptune_inventory(selected) ==
    ReturnDict(<<"clusters">>,
        <<get_inventory([get_inventory_defaults EXCEPT
            !.aws_service = "neptune", !.aws_region = "all",
            !.function_name = "describe_db_clusters", !.key_get = "DBClusters"],
            selected)>>)

get_elasticache_inventory_clusters(selected) ==
    LET service == "elasticache"
        call(region, cluster) ==
            [api |-> "get_resources", region |-> region, arg |-> cluster.ARN]
        \* resource_tag_mapping_list = response["ResourceTagMappingList"]
        tag(region, cluster, response) ==
            IF ~Has(response, "ResourceTagMappingList")
            THEN Step("KeyError", <<>>, <<call(region, cluster)>>)
            ELSE Step(None,
                      <<IF Len(response.ResourceTagMappingList) > 0
                        THEN Put(cluster, "TagList",
                                 GetD(response.ResourceTagMappingList[1], "Tags", <<>>))
                        ELSE cluster>>,
                      <<call(region, cluster)>>)
        tag_step(region, cluster) ==
            tag(region, cluster, get_resources(region, <<cluster.ARN>>))
        steps_of(groups) ==
            [g \in 1..Len(groups) |->
                [i \in 1..Len(groups[g].resources) |->
                    api_step(groups[g].region,
                             tag_step(groups[g].region, groups[g].resources[i]))]]
        tag_all(e, groups) ==
            ReturnInventory(run_steps(region_steps("resourcegroupstaggingapi", groups, steps_of(groups))), e)
        post_pass(e) ==
            IF e.raised THEN ReturnRaised(e) ELSE tag_all(e, resources_by_region(e.items))
    IN post_pass(get_inventory([get_inventory_defaults EXCEPT
            !.aws_service = service, !.aws_region = "all",
            !.function_name = "describe_cache_clusters", !.key_get = "CacheClusters",
            !.pagination = TRUE], selected))

get_elasticache_inventory(selected) ==
    LET both(c, b) ==
            IF c.kind = "raise" THEN c
            ELSE IF b.raised
            THEN Return("raise", "ClientError", c.listed, c.calls \o b.calls, c.units + b.units)
            ELSE Return("dict",
                        ("cache-clusters" :> c.val) @@ ("reserved-cache-nodes" :> b.items),
                        c.listed \o <<b.items>>, c.calls \o b.calls, c.units + b.units)
    IN both(get_elasticache_inventory_clusters(selected),
            get_inventory([get_inventory_defaults EXCEPT
                !.aws_service = "elasticache", !.aws_region = "all",
                !.function_name = "describe_reserved_cache_nodes",
                !.key_get = "ReservedCacheNodes",
                !.pagination = TRUE], selected))

get_redshift_inventory(selected) ==
    ReturnDict(<<"clusters", "reserved-nodes">>,
        <<get_inventory([get_inventory_defaults EXCEPT
            !.aws_service = "redshift", !.aws_region = "all",
            !.function_name = "describe_clusters", !.key_get = "Clusters",
            !.pagination = TRUE], selected),
          get_inventory([get_inventory_defaults EXCEPT
            !.aws_service = "redshift", !.aws_region = "all",
            !.function_name = "describe_reserved_nodes", !.key_get = "ReservedNodes",
            !.pagination = TRUE], selected)>>)

-----------------------------------------------------------------------------
(* res/analytics.py *)

\* the steps of `for region, xs in groups.items(): <open a client>` followed,
\* outside that loop, by `for x in xs: <item step>`: xs and the client are
\* those the loop left, the last region's
last_region_steps(service, groups, item_steps) ==
    [g \in 1..Len(groups) |-> open_client(service, groups[g].region)] \o
    (IF Len(groups) = 0 THEN <<>> ELSE item_steps[Len(groups)])

get_es_inventory(selected) ==
    LET service == "es"
        \* cluster["TagList"] = es.list_tags(ARN=cluster["DomainStatus"]["ARN"]).get("TagList", [])
        tag_step(region, cluster) ==
            IF ~Has(cluster, "DomainStatus") THEN Step("KeyError", <<>>, <<>>)
            ELSE Step(None,
                      <<Put(cluster, "TagList",
                            GetD(es_list_tags(region, cluster.DomainStatus.ARN),
                                 "TagList", <<>>))>>,
                      <<[api |-> "list_tags", region |-> region,
                         arg |-> cluster.DomainStatus.ARN]>>)
        steps_of(groups) ==
            [g \in 1..Len(groups) |->
                [i \in 1..Len(groups[g].resources) |->
                    api_step(groups[g].region,
                             tag_step(groups[g].region, groups[g].resources[i]))]]
        tag_all(e, groups) ==
            ReturnInventory(run_steps(last_region_steps(service, groups, steps_of(groups))), e)
        post_pass(e) ==
            IF e.raised THEN ReturnRaised(e) ELSE tag_all(e, resources_by_region(e.items))
    IN post_pass(get_inventory([get_inventory_defaults EXCEPT
            !.aws_service = service, !.aws_region = "all",
            !.function_name = "list_domain_names", !.key_get = "DomainNames",
            !.join_key = "DomainName", !.detail_join_key = "DomainName",
            !.detail_function = "describe_elasticsearch_domain",
            !.detail_get_key = "DomainStatus"], selected))

get_emr_inventory(selected) ==
    LET fleets(cluster) ==
            get_inventory([get_inventory_defaults EXCEPT
                !.aws_service = "emr", !.aws_region = "all",
                !.function_name = "list_instance_fleets", !.key_get = "InstanceFleets",
                !.additional_parameters = [ClusterId |-> cluster.Id]], selected)
        instance_groups(cluster) ==
            get_inventory([get_inventory_defaults EXCEPT
                !.aws_service = "emr", !.aws_region = "all",
                !.function_name = "list_instance_groups", !.key_get = "InstanceGroups",
                !.pagination = TRUE, !.join_key = "Id", !.detail_join_key = "ClusterId",
                !.detail_function = "describe_cluster", !.detail_get_key = ""], selected)
        \* emr_cluster is overwritten for every cluster: the last one stays
        assemble(c, subs) ==
            IF \E i \in 1..Len(subs) : subs[i][1].raised \/ subs[i][2].raised
            THEN Return("raise", "ClientError", <<c.items>>,
                        c.calls \o
                            Flatten([i \in 1..Len(subs) |-> subs[i][1].calls \o subs[i][2].calls]),
                        c.units)
            ELSE
            ReturnTyped("dict",
                   [clusters |-> IF Len(subs) > 0
                                 THEN [fleets |-> subs[Len(subs)][1].items,
                                       instance_groups |-> subs[Len(subs)][2].items]
                                 ELSE EmptyDict],
                   [clusters |-> "dict"],
                   <<c.items>> \o
                       Flatten([i \in 1..Len(subs) |-> <<subs[i][1].items, subs[i][2].items>>]),
                   c.calls \o
                       Flatten([i \in 1..Len(subs) |-> subs[i][1].calls \o subs[i][2].calls]),
                   IF Len(subs) > 0
                   THEN c.units +
                        SumSeq([i \in 1..Len(subs) |-> subs[i][1].units + subs[i][2].units])
                   ELSE c.units + 2 * nb_regions)
        loop(c) ==
            IF c.raised THEN ReturnRaised(c)
            ELSE IF \E i \in 1..Len(c.items) : ~Has(c.items[i], "Id")
            THEN Return("raise", "KeyError", <<c.items>>, c.calls, c.units)
            ELSE assemble(c, [i \in 1..Len(c.items) |->
                                <<fleets(c.items[i]), instance_groups(c.items[i])>>])
    IN loop(get_inventory([get_inventory_defaults EXCEPT
            !.aws_service = "emr", !.aws_region = "all",
            !.function_name = "list_clusters", !.key_get = "Clusters",
            !.pagination = TRUE, !.join_key = "Id", !.detail_join_key = "ClusterId",
            !.detail_function = "describe_cluster", !.detail_get_key = ""], selected))

get_kinesis_inventory(selected) ==
    LET service == "kinesis"
        \* stream["Tags"] = kinesis.list_tags_for_stream(
        \*     StreamName=stream["StreamDescription"]["StreamName"]).get("Tags", [])
        tag_step(region, stream) ==
            IF ~Has(stream, "StreamDescription") THEN Step("KeyError", <<>>, <<>>)
            ELSE Step(None,
                      <<Put(stream, "Tags",
                            GetD(kinesis_list_tags_for_stream(
                                     region, stream.StreamDescription.StreamName),
                                 "Tags", <<>>))>>,
                      <<[api |-> "list_tags_for_stream", region |-> region,
                         arg |-> stream.StreamDescription.StreamName]>>)
        steps_of(groups) ==
            [g \in 1..Len(groups) |->
                [i \in 1..Len(groups[g].resources) |->
                    api_step(groups[g].region,
                             tag_step(groups[g].region, groups[g].resources[i]))]]
        tag_all(e, groups) ==
            ReturnInventory(run_steps(last_region_steps(service, groups, steps_of(groups))), e)
        post_pass(e) ==
            IF e.raised THEN ReturnRaised(e) ELSE tag_all(e, resources_by_region(e.items))
    IN post_pass(get_inventory([get_inventory_defaults EXCEPT
            !.aws_service = service, !.aws_region = "all",
            !.function_name = "list_streams", !.key_get = "StreamNames",
            !.detail_function = "describe_stream", !.join_key = "",
            !.detail_join_key = "StreamName",
            !.detail_get_key = "StreamDescription"], selected))

-----------------------------------------------------------------------------
(* res/integration.py *)

\* a faulty variant of sqs_list_queues_args: the attributes are looked up
\* under a key the detail response does not have
sqs_list_queues_args_wrong_detail_key ==
    [get_inventory_defaults EXCEPT
        !.aws_service = "sqs", !.aws_region = "all",
        !.function_name = "list_queues", !.key_get = "QueueUrls",
        !.detail_function = "get_queue_attributes", !.join_key = "QueueUrl",
        !.detail_join_key = "QueueUrl", !.detail_get_key = "Attribute",
        !.detail_additional_parameters = [AttributeNames |-> <<"All">>]]

\* the keyword arguments of the get_inventory call of get_sqs_inventory
sqs_list_queues_args ==
    [get_inventory_defaults EXCEPT
        !.aws_service = "sqs", !.aws_region = "all",
        !.function_name = "list_queues", !.key_get = "QueueUrls",
        !.detail_function = "get_queue_attributes", !.join_key = "QueueUrl",
        !.detail_join_key = "QueueUrl", !.detail_get_key = "Attributes",
        !.detail_additional_parameters = [AttributeNames |-> <<"All">>]]

get_sqs_inventory(selected) ==
    LET service == "sqs"
        \* queue["Tags"] = sqs.list_queue_tags(QueueUrl=queue["QueueUrl"]).get("Tags", {})
        tag_step(region, queue) ==
            Step(None,
                 <<Put(queue, "Tags",
                       GetD(sqs_list_queue_tags(region, queue.QueueUrl), "Tags", EmptyDict))>>,
                 <<[api |-> "list_queue_tags", region |-> region, arg |-> queue.QueueUrl]>>)
        steps_of(groups) ==
            [g \in 1..Len(groups) |->
                [i \in 1..Len(groups[g].resources) |->
                    api_step(groups[g].region,
                             tag_step(groups[g].region, groups[g].resources[i]))]]
        tag_all(e, groups) ==
            ReturnInventory(run_steps(region_steps(service, groups, steps_of(groups))), e)
        post_pass(e) ==
            IF e.raised THEN ReturnRaised(e) ELSE tag_all(e, resources_by_region(e.items))
    IN post_pass(get_inventory(sqs_list_queues_args, selected))

get_sns_inventory_topics(selected) ==
    LET service == "sns"
        \* topic["Tags"] = sns.list_tags_for_resource(ResourceArn=topic["TopicArn"]).get("Tags", [])
        tag_step(region, topic) ==
            Step(None,
                 <<Put(topic, "Tags",
                       GetD(sns_list_tags_for_resource(region, topic.TopicArn), "Tags", <<>>))>>,
                 <<[api |-> "list_tags_for_resource", region |-> region,
                    arg |-> topic.TopicArn]>>)
        steps_of(groups) ==
            [g \in 1..Len(groups) |->
                [i \in 1..Len(groups[g].resources) |->
                    api_step(groups[g].region,
                             tag_step(groups[g].region, groups[g].resources[i]))]]
        tag_all(e, groups) ==
            ReturnInventory(run_steps(region_steps(service, groups, steps_of(groups))), e)
        post_pass(e) ==
            IF e.raised THEN ReturnRaised(e) ELSE tag_all(e, resources_by_region(e.items))
    IN post_pass(get_inventory([get_inventory_defaults EXCEPT
            !.aws_service = service, !.aws_region = "all",
            !.function_name = "list_topics", !.key_get = "Topics",
            !.pagination = TRUE], selected))

\* sns_inventory is filled in and the function ends without a return statement
get_sns_inventory(selected) ==
    LET both(t, a) ==
            IF t.kind = "raise" THEN t
            ELSE IF a.raised
            THEN Return("raise", "ClientError", t.listed, t.calls \o a.calls, t.units + a.units)
            ELSE Return("None", None, t.listed \o <<a.items>>, t.calls \o a.calls,
                        t.units + a.units)
    IN both(get_sns_inventory_topics(selected),
            get_inventory([get_inventory_defaults EXCEPT
                !.aws_service = "sns", !.aws_region = "all",
                !.function_name = "list_platform_applications",
                !.key_get = "PlatformApplications",
                !.pagination = TRUE], selected))

get_eventbridge_inventory(selected) ==
    LET part(function_name, key_get, detail_function, join_key, detail_join_key) ==
            get_inventory([get_inventory_defaults EXCEPT
                !.aws_service = "events", !.aws_region = "all",
                !.function_name = function_name, !.key_get = key_get,
                !.detail_function = detail_function, !.join_key = join_key,
                !.detail_join_key = detail_join_key, !.detail_get_key = "",
                !.pagination_detail = FALSE, !.pagination = FALSE], selected)
    IN ReturnDict(
        <<"archives", "connections", "event_buses", "event_sources", "replays", "rules">>,
        <<part("list_archives", "Archives", "describe_archive", "ArchiveName", "ArchiveName"),
          part("list_connections", "Connections", "describe_connection", "Name", "Name"),
          part("list_event_buses", "EventBuses", "describe_event_bus", "Name", "Name"),
          part("list_event_sources", "EventSources", "describe_event_source", "Name", "Name"),
          part("list_replays", "ReplayName", "describe_replay", "Name", "ReplayName"),
          part("list_rules", "Rules", "describe_rule", "Name", "Name")>>)

-----------------------------------------------------------------------------
(* The sessions: utils.create_session and the provider in front of it. *)

AccountIds == {"111111111111", "222222222222"}
RoleNames == {"audit", "ops"}

\* f"arn:aws:iam::{account_id}:role/{role}"
RoleArn(account_id, role) == <<"arn:aws:iam::", account_id, ":role/", role>>

\* boto3.Session(profile_name=role) finds the profile; the default profile
\* (None) is always found
resolves(role) == role = None \/ role \in aws.profiles

\* the session boto3.Session(...) builds
Session(profile_name, credentials_array) ==
    [profile_name |-> profile_name, credentials |-> credentials_array]

\* sts_client.assume_role(RoleArn=..., RoleSessionName=...)
assume_role(role_arn, role_session_name) ==
    IF role_arn \in aws.assumable
    THEN [ok |-> TRUE,
          Credentials |-> [AccessKeyId |-> <<"key", role_arn>>,
                           SecretAccessKey |-> <<"secret", role_arn>>,
                           SessionToken |-> <<"token", role_session_name>>]]
    ELSE [ok |-> FALSE]

session_call(role) == [api |-> "boto3.Session", profile_name |-> role]

sts_call(account_id, role) ==
    [api |-> "sts.assume_role", RoleArn |-> RoleArn(account_id, role),
     RoleSessionName |-> <<"AssumeRoleSession", account_id>>]

assumed(account_id, role, cs) ==
    LET assumed_role_object ==
            assume_role(RoleArn(account_id, role), <<"AssumeRoleSession", account_id>>)
    IN  IF assumed_role_object.ok
        THEN [kind |-> "session",
              val |-> Session(None,
                        <<assumed_role_object.Credentials.AccessKeyId,
                          assumed_role_object.Credentials.SecretAccessKey,
                          assumed_role_object.Credentials.SessionToken>>),
              calls |-> cs \o <<sts_call(account_id, role)>>]
        ELSE [kind |-> "raise", val |-> "ClientError",
              calls |-> cs \o <<sts_call(account_id, role)>>]

\* a faulty variant of create_session: the role is assumed whenever it can be
create_session_role_first(account_id, role) ==
    IF RoleArn(account_id, role) \in aws.assumable \/ ~resolves(role)
    THEN assumed(account_id, role, <<>>)
    ELSE [kind |-> "session", val |-> Session(role, None),
          calls |-> <<session_call(role)>>]

create_session(account_id, role) ==
    IF resolves(role)
    THEN [kind |-> "session", val |-> Session(role, None),
          calls |-> <<session_call(role)>>]
    ELSE assumed(account_id, role, <<session_call(role)>>)

\* a faulty variant of get_boto_session: a session is created for every request
get_boto_session_uncached(cache, account_id, role) ==
    LET s == create_session(account_id, role)
    IN  [kind |-> s.kind, val |-> s.val, calls |-> s.calls,
         cache |-> IF s.kind = "session" THEN Put(cache, account_id, s.val) ELSE cache,
         created |-> IF s.kind = "session"
                     THEN <<[account_id |-> account_id, session |-> s.val]>> ELSE <<>>]

\* the session of the account: the one the process holds, else a new one,
\* which the process then holds
get_boto_session(cache, account_id, role) ==
    IF Has(cache, account_id)
    THEN [kind |-> "session", val |-> cache[account_id], calls |-> <<>>,
          cache |-> cache, created |-> <<>>]
    ELSE LET s == create_session(account_id, role)
         IN  [kind |-> s.kind, val |-> s.val, calls |-> s.calls,
              cache |-> IF s.kind = "session" THEN Put(cache, account_id, s.val)
                        ELSE cache,
              created |-> IF s.kind = "session"
                          THEN <<[account_id |-> account_id, session |-> s.val]>>
                          ELSE <<>>]

-----------------------------------------------------------------------------
(* The driver: one inventory function at a time, on the selected regions. *)

\* the account and the profile the driver hands to the inventory functions
oId == "111111111111"
profile == None

\* session = utils.get_boto_session(oId, profile), once per client opened
RECURSIVE provided(_, _)
provided(st, n) ==
    IF n = 0 THEN st
    ELSE LET g == get_boto_session(st.cache, oId, profile)
         IN  provided([cache |-> g.cache, created |-> st.created \o g.created], n - 1)

clients_opened(cs) ==
    Len(SelectSeq(cs, LAMBDA c : Has(c, "api") /\ c.api = "client"))

\* the inventory function `name` runs and returns h
Run(name, h) ==
    /\ nb_units_done < MaxUnits
    /\ op' = name
    /\ ret' = [kind |-> h.kind, val |-> h.val, types |-> h.types]
    /\ listed' = h.listed
    /\ calls' = h.calls
    /\ nb_units_done' = nb_units_done + h.units
    /\ LET st == provided([cache |-> sessions, created |-> created],
                          clients_opened(h.calls))
       IN  sessions' = st.cache /\ created' = st.created
    /\ UNCHANGED <<aws, selected_regions, nb_regions>>

ApiGateway == Run("get_apigateway_inventory", get_apigateway_inventory(selected_regions))
ApiGatewayV2 == Run("get_apigatewayv2_inventory", get_apigatewayv2_inventory(selected_regions))
CloudFront == Run("get_cloudfront_inventory", get_cloudfront_inventory(selected_regions))
Route53Zones == Run("get_route53_inventory_zones", get_route53_inventory_zones(selected_regions))
Elb == Run("get_elb_inventory", get_elb_inventory(selected_regions))
ElbV2 == Run("get_elbv2_inventory", get_elbv2_inventory(selected_regions))
Rds == Run("get_rds_inventory", get_rds_inventory(selected_regions))
DynamoDB == Run("get_dynamodb_inventory", get_dynamodb_inventory(selected_regions))
Neptune == Run("get_neptune_inventory", get_neptune_inventory(selected_regions))
ElastiCacheClusters ==
    Run("get_elasticache_inventory_clusters", get_elasticache_inventory_clusters(selected_regions))
ElastiCache == Run("get_elasticache_inventory", get_elasticache_inventory(selected_regions))
Redshift == Run("get_redshift_inventory", get_redshift_inventory(selected_regions))
Es == Run("get_es_inventory", get_es_inventory(selected_regions))
Emr == Run("get_emr_inventory", get_emr_inventory(selected_regions))
Kinesis == Run("get_kinesis_inventory", get_kinesis_inventory(selected_regions))
Sqs == Run("get_sqs_inventory", get_sqs_inventory(selected_regions))
SnsTopics == Run("get_sns_inventory_topics", get_sns_inventory_topics(selected_regions))
Sns == Run("get_sns_inventory", get_sns_inventory(selected_regions))
EventBridge == Run("get_eventbridge_inventory", get_eventbridge_inventory(selected_regions))

-----------------------------------------------------------------------------
(* The accounts and selections the inventory is run on. *)

\* the non-empty orderings of the regions the driver can select
RECURSIVE Orderings(_)
Orderings(S) ==
    {<<>>} \cup UNION {{<<r>> \o t : t \in Orderings(S \ {r})} : r \in S}

Selections == Orderings(Regions) \ {<<>>}

\* the resources a region can hold: names of the pool, in pool order
Listings ==
    {SelectSeq([i \in 1..MaxItems |-> NamePool[i]], LAMBDA x : x \in S) : S \in SUBSET Names}

\* an account that answers every request in the expected shape
Account(items) ==
    [items |-> items, pageSize |-> Len(NamePool), schemaOK |-> TRUE, undetailed |-> {},
     untagged |-> {}, orphanTag |-> FALSE, tagSchemaOK |-> TRUE, fault |-> NoFault,
     profiles |-> {}, assumable |-> {}]

InitDriver ==
    /\ selected_regions \in Selections
    /\ nb_regions = Cardinality(Regions)
    /\ nb_units_done = 0
    /\ op = "idle"
    /\ ret = [kind |-> "idle", val |-> None, types |-> EmptyDict]
    /\ listed = <<>>
    /\ calls = <<>>
    /\ sessions = EmptyDict
    /\ created = <<>>

Init ==
    /\ aws \in {Account(items) : items \in [AllRegions -> Listings]}
    /\ InitDriver

Next ==
    \/ ApiGateway \/ ApiGatewayV2 \/ CloudFront \/ Route53Zones \/ Elb \/ ElbV2
    \/ Rds \/ DynamoDB \/ Neptune \/ ElastiCacheClusters \/ ElastiCache \/ Redshift
    \/ Es \/ Emr \/ Kinesis
    \/ Sqs \/ SnsTopics \/ Sns \/ EventBridge

Spec == Init /\ [][Next]_vars

-----------------------------------------------------------------------------
(* Further accounts: paged listings, resources without a detail, resources *)
(* without tags and tag results about unlisted resources, responses        *)
(* without their result key, and accounts large enough to need chunking.   *)

InitPage ==
    /\ aws \in {[Account(items) EXCEPT !.pageSize = p] :
                    items \in [AllRegions -> Listings], p \in 1..MaxPageSize}
    /\ InitDriver

SpecPage == InitPage /\ [][Next]_vars

\* accounts with resources in the regions only, or global resources only
RegionalItems ==
    {[r \in AllRegions |-> IF r = "global" THEN <<>> ELSE items[r]] :
        items \in [Regions -> Listings]}

GlobalItems ==
    {[r \in AllRegions |-> IF r = "global" THEN items ELSE <<>>] : items \in Listings}

InitJoin ==
    /\ aws \in {[Account(items) EXCEPT !.undetailed = u] :
                    items \in RegionalItems, u \in SUBSET Names}
    /\ InitDriver

\* the inventory functions that join a detail to each listed item
NextJoin == DynamoDB \/ Es \/ Emr \/ Kinesis \/ Sqs \/ EventBridge

SpecJoin == InitJoin /\ [][NextJoin]_vars

InitTag ==
    /\ aws \in {[Account(items) EXCEPT !.untagged = u, !.orphanTag = o] :
                    items \in RegionalItems \cup GlobalItems,
                    u \in SUBSET Names, o \in BOOLEAN}
    /\ InitDriver

\* inventory functions with a tag post-pass
NextTag ==
    \/ CloudFront \/ Route53Zones \/ Elb \/ ElbV2
    \/ DynamoDB \/ ElastiCacheClusters
    \/ Sqs \/ SnsTopics

SpecTag == InitTag /\ [][NextTag]_vars

InitShape ==
    /\ aws \in {[Account(items) EXCEPT !.schemaOK = l, !.tagSchemaOK = t] :
                    items \in [AllRegions -> Listings], l \in BOOLEAN, t \in BOOLEAN}
    /\ InitDriver

SpecShape == InitShape /\ [][Next]_vars

\* n resources named n1, n2, ...
BulkNames(n) == [i \in 1..n |-> "n" \o ToString(i)]

\* load balancers in the regions and no hosted zone, or hosted zones only
BulkCounts ==
    {[r \in AllRegions |-> IF r = "global" THEN 0 ELSE n[r]] : n \in [Regions -> 0..MaxLbs]}
    \cup {[r \in AllRegions |-> IF r = "global" THEN z ELSE 0] : z \in 0..MaxZones}

InitChunk ==
    /\ aws \in {Account([r \in AllRegions |-> BulkNames(n[r])]) : n \in BulkCounts}
    /\ InitDriver

NextChunk == Route53Zones \/ Elb \/ ElbV2

SpecChunk == InitChunk /\ [][NextChunk]_vars

-----------------------------------------------------------------------------
(* Properties of the inventory functions. *)

\* the resource a record is about
NameOf(rec) ==
    CASE Has(rec, "ARN") -> rec.ARN[3]
      [] Has(rec, "Arn") -> rec.Arn[3]
      [] Has(rec, "TopicArn") -> rec.TopicArn[3]
      [] Has(rec, "Name") -> rec.Name
      [] Has(rec, "TableName") -> rec.TableName
      [] Has(rec, "QueueUrl") -> rec.QueueUrl
      [] Has(rec, "StreamDescription") -> rec.StreamDescription.StreamName
      [] Has(rec, "DomainName") -> rec.DomainName
      [] Has(rec, "LoadBalancerName") -> rec.LoadBalancerName
      [] Has(rec, "ArchiveName") -> rec.ArchiveName
      [] Has(rec, "Id") -> rec.Id[4]

NamesOf(recs) == [i \in 1..Len(recs) |-> NameOf(recs[i])]

\* the records of an enumeration that carry the region r
OfRegion(recs, r) == SelectSeq(recs, LAMBDA rec : rec.RegionName = r)

\* the regions the function that ran last queried
Queried ==
    IF op \in {"get_cloudfront_inventory", "get_route53_inventory_zones"}
    THEN {"global"} ELSE Range(selected_regions)

NoResources == \A r \in AllRegions : aws.items[r] = <<>>

Ceil(n, k) == (n + k - 1) \div k

\* the chunked tagging calls of the function that ran last
TagCallsIn(r) == SelectSeq(calls, LAMBDA c : Has(c, "ids") /\ c.region = r)

AllTagCalls == SelectSeq(calls, LAMBDA c : Has(c, "ids"))

ChunkedOps == {"get_route53_inventory_zones", "get_elb_inventory", "get_elbv2_inventory"}

ChunkSize == IF op = "get_route53_inventory_zones" THEN ZONE_CHUNK ELSE LB_CHUNK

\* the identifier of a listed item in its tagging call
TagId(rec) ==
    CASE op = "get_route53_inventory_zones" -> zone_id(rec)
      [] op = "get_elb_inventory" -> rec.LoadBalancerName
      [] op = "get_elbv2_inventory" -> rec.LoadBalancerArn

\* C1: after get_apigateway_inventory, get_neptune_inventory or
\* get_sqs_inventory, the enumerator's records of each selected region are the
\* region's whole listing, page after page in page order, also when the list
\* responses carry a continuation token; and once a list response carries no
\* token no further list request is sent to that region.
C1_AllPagesInOrder ==
    op \in {"get_apigateway_inventory", "get_neptune_inventory", "get_sqs_inventory"} =>
        /\ \A r \in Range(selected_regions) :
              NamesOf(OfRegion(listed[1], r)) = aws.items[r]
        /\ \A i \in DOMAIN calls :
              (Has(calls[i], "token") /\ ~calls[i].has_token) =>
                  \A j \in (i + 1)..Len(calls) :
                      ~(Has(calls[j], "token") /\ calls[j].region = calls[i].region)

\* C2: in the enumerations of get_dynamodb_inventory, get_sqs_inventory and
\* get_kinesis_inventory, the detail fields of a record are those of the
\* detail response about the record's own join-key value (same resource, same
\* region), and a record whose resource has no detail response holds its
\* listing fields and the region, nothing else.
C2_DetailJoinedByKey ==
    /\ op = "get_dynamodb_inventory" =>
          \A i \in DOMAIN listed[1] :
              IF listed[1][i].TableName \in aws.undetailed
              THEN listed[1][i] = [TableName |-> listed[1][i].TableName,
                                   RegionName |-> listed[1][i].RegionName]
              ELSE /\ DOMAIN listed[1][i] = {"TableName", "Table", "RegionName"}
                   /\ listed[1][i].Table =
                          [TableName |-> listed[1][i].TableName,
                           TableArn |-> Arn(listed[1][i].RegionName, listed[1][i].TableName)]
    /\ op = "get_sqs_inventory" =>
          \A i \in DOMAIN listed[1] :
              IF listed[1][i].QueueUrl \in aws.undetailed
              THEN listed[1][i] = [QueueUrl |-> listed[1][i].QueueUrl,
                                   RegionName |-> listed[1][i].RegionName]
              ELSE /\ DOMAIN listed[1][i] = {"QueueUrl", "Attributes", "RegionName"}
                   /\ listed[1][i].Attributes =
                          [QueueArn |-> Arn(listed[1][i].RegionName, listed[1][i].QueueUrl)]
    /\ op = "get_kinesis_inventory" =>
          \A r \in Range(selected_regions) :
              /\ Len(OfRegion(listed[1], r)) = Len(aws.items[r])
              /\ \A i \in DOMAIN aws.items[r] :
                    IF aws.items[r][i] \in aws.undetailed
                    THEN OfRegion(listed[1], r)[i] = [RegionName |-> r]
                    ELSE OfRegion(listed[1], r)[i] =
                            [StreamDescription |->
                                [StreamName |-> aws.items[r][i],
                                 StreamARN |-> Arn(r, aws.items[r][i])],
                             RegionName |-> r]

\* C2 witness: get_sqs_inventory listed a queue that has attributes and a
\* queue that has none.
C2_Witness ==
    /\ op = "get_sqs_inventory"
    /\ \E i \in DOMAIN listed[1] : listed[1][i].QueueUrl \in aws.undetailed
    /\ \E i \in DOMAIN listed[1] : Has(listed[1][i], "Attributes")

\* the enumerations that list every resource of the regions they query: all
\* but the EMR listings narrowed to one cluster and the replays read under
\* the key "ReplayName"
FullListing(k) ==
    /\ ~(op = "get_emr_inventory" /\ k > 1)
    /\ ~(op = "get_eventbridge_inventory" /\ k = 5)

\* C3: every record of every enumeration carries a RegionName, the name of a
\* region that was queried, and the records carrying the name of a region are
\* exactly the resources that region's list call produced; a single-region
\* get_apigatewayv2_inventory (key "Items") on a region holding one API "a"
\* returns exactly [{"Name": "a", "RegionName": <that region>}].
C3_RegionNameIsOrigin ==
    /\ \A k \in DOMAIN listed :
          /\ \A i \in DOMAIN listed[k] :
                Has(listed[k][i], "RegionName") /\ listed[k][i].RegionName \in Queried
          /\ FullListing(k) =>
                \A r \in Queried : NamesOf(OfRegion(listed[k], r)) = aws.items[r]
    /\ (/\ op = "get_apigatewayv2_inventory"
        /\ Len(selected_regions) = 1
        /\ aws.items[selected_regions[1]] = <<"a">>) =>
            ret.val = <<[Name |-> "a", RegionName |-> selected_regions[1]]>>

\* C3 witness: the single-region scenario, and in the same account another
\* region that holds other resources.
C3_Witness ==
    /\ op = "get_apigatewayv2_inventory"
    /\ Len(selected_regions) = 1
    /\ aws.items[selected_regions[1]] = <<"a">>
    /\ \E r \in Regions : aws.items[r] # <<"a">> /\ aws.items[r] # <<>>
    /\ ret.val = <<[Name |-> "a", RegionName |-> selected_regions[1]]>>

\* the function that ran last, run on the regions in another order
Reordered(selected) ==
    CASE op = "get_es_inventory" -> get_es_inventory(selected)
      [] op = "get_elb_inventory" -> get_elb_inventory(selected)
      [] op = "get_elbv2_inventory" -> get_elbv2_inventory(selected)

\* C4: get_es_inventory, get_elb_inventory and get_elbv2_inventory return the
\* same set of records, with the same RegionName and tags, whatever the order
\* in which the same regions are selected.
C4_OrderIndependent ==
    op \in {"get_es_inventory", "get_elb_inventory", "get_elbv2_inventory"} =>
        \A s \in Selections :
            Range(s) = Range(selected_regions) =>
                /\ Reordered(s).kind = ret.kind
                /\ Range(Reordered(s).val) = Range(ret.val)

\* C5 as claimed: the number of chunked tagging calls is ceil(N/K), N the
\* number of items handed to the tag post-pass.
C5_CallsForAllItems ==
    (op \in ChunkedOps /\ ret.kind = "list") =>
        Len(AllTagCalls) = Ceil(Len(listed[1]), ChunkSize)

\* C5: each tagging client is sent ceil(Nr/K) calls, Nr the number of
\* items of its region among the items handed to the tag post-pass (all the
\* hosted zones for Route 53, one region's load balancers for ELB/ELBv2).
C5_CallsPerRegion ==
    (op \in ChunkedOps /\ ret.kind = "list") =>
        \A r \in AllRegions :
            Len(TagCallsIn(r)) = Ceil(Len(OfRegion(listed[1], r)), ChunkSize)

\* C5 witness: load balancers in two regions, one of them holding more than
\* a chunk.
C5_Witness ==
    /\ op = "get_elb_inventory"
    /\ ret.kind = "list"
    /\ \E r \in Regions : Len(OfRegion(listed[1], r)) > LB_CHUNK
    /\ \A r \in Regions : Len(OfRegion(listed[1], r)) > 0

\* C6: every listed item's identifier is sent to its region's tagging client
\* in exactly one chunk, at one position, and no chunk holds more than K
\* identifiers.
C6_EachIdInOneChunk ==
    (op \in ChunkedOps /\ ret.kind = "list") =>
        /\ \A i \in DOMAIN listed[1] :
              Cardinality({cp \in {<<c, p>> : c \in DOMAIN calls, p \in 1..ChunkSize} :
                              /\ Has(calls[cp[1]], "ids")
                              /\ calls[cp[1]].region = listed[1][i].RegionName
                              /\ cp[2] <= Len(calls[cp[1]].ids)
                              /\ calls[cp[1]].ids[cp[2]] = TagId(listed[1][i])}) = 1
        /\ \A c \in DOMAIN calls :
              Has(calls[c], "ids") => Len(calls[c].ids) <= ChunkSize

\* C6 witness: more hosted zones than a chunk holds.
C6_Witness ==
    /\ op = "get_route53_inventory_zones"
    /\ ret.kind = "list"
    /\ Len(listed[1]) > ZONE_CHUNK
    /\ Len(AllTagCalls) > 1

\* C7: on an account without any resource, an inventory function returns an
\* empty list, or a dict whose values are all empty lists, and does not fail.
C7_NoResourcesEmptyInventory ==
    (op # "idle" /\ NoResources) =>
        \/ ret.kind = "list" /\ ret.val = <<>>
        \/ /\ ret.kind = "dict"
           /\ \A k \in DOMAIN ret.val : ret.types[k] = "list" /\ ret.val[k] = <<>>

\* C8: an inventory function returns a list of records or a dict whose values
\* are lists of records; it does not return None and no value of the dict is
\* anything but a list.
C8_ReturnsInventoryDocument ==
    op # "idle" =>
        \/ ret.kind = "list"
        \/ ret.kind = "dict" /\ \A k \in DOMAIN ret.val : ret.types[k] = "list"

\* the record the tag post-pass should return for a listed record
Tagged(rec, field) ==
    IF NameOf(rec) \in aws.untagged THEN rec
    ELSE Put(rec, field, TagsOf(rec.RegionName, NameOf(rec)))

\* C9: get_elb_inventory, get_elbv2_inventory, get_route53_inventory_zones
\* and get_elasticache_inventory_clusters return every listed item, in
\* order: an item the tagging API has no result for is returned as listed
\* (no Tags / TagList field), any other item with its own tags, and a tag
\* result that matches no listed item changes nothing; the call does not fail.
C9_UnmatchedTagsSkipped ==
    /\ op \in ChunkedOps =>
          /\ ret.kind = "list"
          /\ ret.val = [i \in 1..Len(listed[1]) |-> Tagged(listed[1][i], "Tags")]
    /\ op = "get_elasticache_inventory_clusters" =>
          /\ ret.kind = "list"
          /\ ret.val = [i \in 1..Len(listed[1]) |-> Tagged(listed[1][i], "TagList")]

\* C9 witness: describe_tags returned a result about a load balancer that
\* was not listed and none about one that was.
C9_Witness ==
    /\ op = "get_elb_inventory"
    /\ aws.orphanTag
    /\ \E i \in DOMAIN ret.val : ~Has(ret.val[i], "Tags")
    /\ \E i \in DOMAIN ret.val : Has(ret.val[i], "Tags")

\* C10: when the list responses or the tag responses lack their result key
\* the inventory function does not fail, a list response without its key
\* gives zero items (so do the replays, read under "ReplayName"), and the
\* items are returned with an empty tag collection.
C10_MissingKeyIsZeroItems ==
    /\ (op # "idle" /\ (~aws.schemaOK \/ ~aws.tagSchemaOK)) => ret.kind # "raise"
    /\ (op # "idle" /\ ~aws.schemaOK) => \A k \in DOMAIN listed : listed[k] = <<>>
    /\ (op = "get_eventbridge_inventory" /\ ret.kind = "dict") => ret.val.replays = <<>>

-----------------------------------------------------------------------------
(* Accounts where the calls of one kind fail in one region. *)

Faults == [region : AllRegions, stage : {"list", "detail", "tag"}]

InitFault ==
    /\ aws \in {[Account(items) EXCEPT !.fault = f] :
                    items \in RegionalItems \cup GlobalItems, f \in Faults}
    /\ InitDriver

SpecFault == InitFault /\ [][Next]_vars

\* the call c was issued in the region and of the kind that fail
FailedCall(c) ==
    \/ Has(c, "token") /\ Fails(c.region, "list")
    \/ Has(c, "key") /\ Fails(c.region, "detail")
    \/ (Has(c, "ids") \/ Has(c, "arg")) /\ Fails(c.region, "tag")

\* C11: when a list, detail or tag call of an inventory function fails in a
\* region, the function raises the failure instead of returning a document,
\* whatever was fetched before, and the failed call is the last one it made.
C11_RegionFaultAborts ==
    \A i \in DOMAIN calls :
        FailedCall(calls[i]) =>
            /\ ret.kind = "raise"
            /\ ret.val = "ClientError"
            /\ i = Len(calls)

\* C11 witness: describe_tags fails in the second region after the load
\* balancers of the first region were fetched and their tags asked for.
C11_Witness ==
    /\ op = "get_elb_inventory"
    /\ Len(selected_regions) = 2
    /\ Fails(selected_regions[2], "tag")
    /\ \E i \in DOMAIN calls :
          Has(calls[i], "ids") /\ calls[i].region = selected_regions[1]
    /\ \E i \in DOMAIN calls : FailedCall(calls[i])
    /\ ret.kind = "raise"

-----------------------------------------------------------------------------
(* utils.get_aws_regions: the regions of the account, each with a display  *)
(* color and, when the account may use it, its availability zones.         *)

MaxRegionList == 2   \* regions in the describe_regions response (SpecRegions)
MaxColors == 2       \* colors held by color.json (SpecRegions)

RegionPool == {"us-east-1", "us-west-2", "ap-east-1"}
ColorPool == <<"red", "blue", "green">>
OptInStatuses == {"opt-in-not-required", "opted-in", "not-opted-in"}

\* client.describe_regions(AllRegions=True)
describe_regions == [Regions |-> aws.Regions]

\* client.describe_availability_zones() of a client of `region`
describe_availability_zones(region) ==
    [AvailabilityZones |-> <<[RegionName |-> region, ZoneName |-> <<region, "a">>],
                             [RegionName |-> region, ZoneName |-> <<region, "b">>]>>]

\* a faulty variant of zip: the colors are paired from the last one
zip_from_last(colors, listed_regions) ==
    [i \in 1..Min(Len(colors), Len(listed_regions)) |->
        [color |-> colors[Len(colors) + 1 - i], region |-> i]]

\* zip(colors, listed_regions): the pairs, up to the shorter of the two; a pair
\* holds the color and the position of the region object in listed_regions
zip(colors, listed_regions) ==
    [i \in 1..Min(Len(colors), Len(listed_regions)) |-> [color |-> colors[i], region |-> i]]

\* if (region['OptInStatus'] != 'not-opted-in')
looks_for_zones(region) == region.OptInStatus # "not-opted-in"

\* the body of the loop for one pair, when its statements all succeed
colored(color, region) ==
    IF looks_for_zones(region)
    THEN Put(Put(region, "color", color), "zones",
             describe_availability_zones(region.RegionName).AvailabilityZones)
    ELSE Put(region, "color", color)

\* a faulty variant of regions_returned: only the paired regions are returned
regions_returned_paired(listed_regions, pairs) ==
    [i \in 1..Len(pairs) |-> colored(pairs[i].color, listed_regions[pairs[i].region])]

\* regions["Regions"] after the loop: the loop changed the paired region
\* objects in place, the others are as describe_regions returned them
regions_returned(listed_regions, pairs) ==
    [i \in DOMAIN listed_regions |->
        IF \E j \in DOMAIN pairs : pairs[j].region = i
        THEN LET j == CHOOSE j \in DOMAIN pairs : pairs[j].region = i
             IN colored(pairs[j].color, listed_regions[i])
        ELSE listed_regions[i]]

ec2_call(function, region, profile_name) ==
    [api |-> function, service |-> "ec2", region |-> region, profile |-> profile_name]

\* describe_availability_zones raises for a region the caller has no right on
get_aws_regions(profile_name) ==
    LET listed_regions == describe_regions.Regions
        pairs == zip(aws.colors, listed_regions)
        name(j) == listed_regions[pairs[j].region].RegionName
        zoned(j) == looks_for_zones(listed_regions[pairs[j].region])
        refused == {j \in DOMAIN pairs : zoned(j) /\ name(j) \in aws.denied}
        last == IF refused = {} THEN Len(pairs)
                ELSE CHOOSE j \in refused : \A k \in refused : j <= k
        zone_calls == [j \in 1..Len(SelectSeq([j \in 1..last |-> j], zoned)) |->
                          ec2_call("describe_availability_zones",
                                   name(SelectSeq([k \in 1..last |-> k], zoned)[j]),
                                   profile_name)]
        cs == <<ec2_call("describe_regions", "us-east-1", profile_name)>> \o zone_calls
    IN  IF refused # {}
        THEN Return("raise", "ClientError", <<>>, cs, 0)
        ELSE Return("list", regions_returned(listed_regions, pairs), <<>>, cs, 0)

GetAwsRegions ==
    /\ op = "idle"
    /\ LET h == get_aws_regions(None)
       IN  /\ op' = "get_aws_regions"
           /\ ret' = [kind |-> h.kind, val |-> h.val, types |-> h.types]
           /\ calls' = h.calls
    /\ UNCHANGED <<aws, selected_regions, nb_regions, nb_units_done, listed,
                   sessions, created>>

\* the describe_regions responses: distinct regions, each with its status
RECURSIVE RegionLists(_)
RegionLists(n) ==
    IF n = 0 THEN {<<>>}
    ELSE RegionLists(n - 1) \cup
         {Append(l, [RegionName |-> r, OptInStatus |-> st]) :
              l \in {l \in RegionLists(n - 1) : Len(l) = n - 1},
              r \in RegionPool, st \in OptInStatuses}

DistinctRegionLists ==
    {l \in RegionLists(Min(MaxRegionList, Cardinality(RegionPool))) :
        \A i, j \in DOMAIN l : l[i].RegionName = l[j].RegionName => i = j}

Palettes == {SubSeq(ColorPool, 1, n) : n \in 0..Min(MaxColors, Len(ColorPool))}

InitRegions ==
    /\ aws \in [Regions : DistinctRegionLists, colors : Palettes,
                denied : {{}} \cup {{r} : r \in RegionPool}]
    /\ selected_regions = <<>>
    /\ nb_regions = 0
    /\ nb_units_done = 0
    /\ op = "idle"
    /\ ret = [kind |-> "idle", val |-> None, types |-> EmptyDict]
    /\ listed = <<>>
    /\ calls = <<>>
    /\ sessions = EmptyDict
    /\ created = <<>>

NextRegions == GetAwsRegions

SpecRegions == InitRegions /\ [][NextRegions]_vars

RegionNamesOf(l) == [i \in DOMAIN l |-> l[i].RegionName]

ZoneCalls == SelectSeq(calls, LAMBDA c : c.api = "describe_availability_zones")

\* C12: the i-th region of the describe_regions response gets the i-th color
\* of the palette, and the returned list keeps the order of the response.
C12_ColorsByPosition ==
    (op = "get_aws_regions" /\ ret.kind = "list") =>
        /\ RegionNamesOf(ret.val) = RegionNamesOf(aws.Regions)
        /\ \A i \in DOMAIN aws.Regions \cap DOMAIN aws.colors :
              Has(ret.val[i], "color") /\ ret.val[i]["color"] = aws.colors[i]

\* C12 witness: two regions and two colors, paired in order.
C12_Witness ==
    /\ op = "get_aws_regions"
    /\ ret.kind = "list"
    /\ Len(aws.Regions) = 2
    /\ RegionNamesOf(aws.Regions) = <<"us-east-1", "us-west-2">>
    /\ aws.colors = <<"red", "blue">>
    /\ ret.val[1]["color"] = "red"
    /\ ret.val[2]["color"] = "blue"

\* C13: with fewer colors than regions, get_aws_regions raises nothing on
\* account of the palette and returns every region of the response.
C13_ShortPaletteAllRegions ==
    (op = "get_aws_regions" /\ Len(aws.colors) < Len(aws.Regions)) =>
        /\ ret.kind = "raise" =>
              /\ ZoneCalls # <<>>
              /\ ZoneCalls[Len(ZoneCalls)].region \in aws.denied
        /\ ret.kind = "list" =>
              RegionNamesOf(ret.val) = RegionNamesOf(aws.Regions)
        /\ aws.denied = {} => ret.kind = "list"

\* C13 witness: two regions, one color, both regions returned.
C13_Witness ==
    /\ op = "get_aws_regions"
    /\ Len(aws.Regions) = 2
    /\ Len(aws.colors) = 1
    /\ ret.kind = "list"
    /\ Len(ret.val) = 2

\* C14: get_aws_regions makes one describe_regions call, then exactly one
\* describe_availability_zones call for each region whose OptInStatus is not
\* 'not-opted-in' and none for the others, so that every such region has a
\* zones field, whatever the length of the palette.
C14_OneZoneCallPerOptedRegion ==
    (op = "get_aws_regions" /\ ret.kind = "list") =>
        /\ calls[1].api = "describe_regions"
        /\ Len(calls) = 1 + Len(ZoneCalls)
        /\ RegionNamesOf(ZoneCalls) =
              RegionNamesOf(SelectSeq(aws.Regions, looks_for_zones))
        /\ \A i \in DOMAIN aws.Regions :
              looks_for_zones(aws.Regions[i]) <=> Has(ret.val[i], "zones")

\* C15: when describe_availability_zones is refused for one region, the
\* list of regions is still returned, without a zones field for that region.
C15_RefusedZonesTolerated ==
    (op = "get_aws_regions"
        /\ \E i \in DOMAIN ZoneCalls : ZoneCalls[i].region \in aws.denied) =>
        /\ ret.kind = "list"
        /\ RegionNamesOf(ret.val) = RegionNamesOf(aws.Regions)
        /\ \A i \in DOMAIN ret.val :
              ret.val[i].RegionName \in aws.denied => ~Has(ret.val[i], "zones")

-----------------------------------------------------------------------------
(* Requests for sessions: from the driver, for any account and role, and   *)
(* from the tag post-passes, for the account of the inventory.             *)

GetBotoSession ==
    \E account_id \in AccountIds, role \in RoleNames \cup {None} :
        /\ Len(created) < MaxCreated
        /\ LET g == get_boto_session(sessions, account_id, role)
           IN  /\ op' = "get_boto_session"
               /\ ret' = [kind |-> g.kind, val |-> g.val, types |-> EmptyDict]
               /\ calls' = <<[api |-> "get_boto_session", account_id |-> account_id,
                              role |-> role]>> \o g.calls
               /\ sessions' = g.cache
               /\ created' = created \o g.created
        /\ UNCHANGED <<aws, selected_regions, nb_regions, nb_units_done, listed>>

CreateSession ==
    \E account_id \in AccountIds, role \in RoleNames \cup {None} :
        /\ Len(created) < MaxCreated
        /\ LET s == create_session(account_id, role)
           IN  /\ op' = "create_session"
               /\ ret' = [kind |-> s.kind, val |-> s.val, types |-> EmptyDict]
               /\ calls' = <<[api |-> "create_session", account_id |-> account_id,
                              role |-> role]>> \o s.calls
               /\ created' = created \o
                      IF s.kind = "session"
                      THEN <<[account_id |-> account_id, session |-> s.val]>> ELSE <<>>
        /\ UNCHANGED <<aws, selected_regions, nb_regions, nb_units_done, listed, sessions>>

\* one resource in every region, local profiles and roles STS lets assume
Credentials ==
    {[Account([r \in AllRegions |-> IF r = "global" THEN <<>> ELSE <<NamePool[1]>>])
          EXCEPT !.profiles = p, !.assumable = a] :
        p \in SUBSET RoleNames,
        a \in SUBSET {RoleArn(account_id, role) : account_id \in AccountIds, role \in RoleNames}}

InitSession ==
    /\ aws \in Credentials
    /\ InitDriver

NextSession == GetBotoSession \/ SnsTopics \/ Elb

SpecSession == InitSession /\ [][NextSession]_vars

NextCreate == CreateSession

SpecCreate == InitSession /\ [][NextCreate]_vars

C17_ProfileThenRole ==
    op = "create_session" =>
        LET account_id == calls[1].account_id
            role == calls[1].role
            sts == SelectSeq(calls, LAMBDA c : c.api = "sts.assume_role")
        IN  /\ calls[2] = session_call(role)
            /\ resolves(role) =>
                  /\ ret.kind = "session"
                  /\ ret.val.profile_name = role
                  /\ sts = <<>>
            /\ ~resolves(role) =>
                  /\ Len(calls) = 3
                  /\ calls[3].api = "sts.assume_role"
                  /\ calls[3].RoleArn = <<"arn:aws:iam::", account_id, ":role/", role>>
                  /\ (calls[3].RoleArn \in aws.assumable => ret.kind = "session")
                  /\ (calls[3].RoleArn \notin aws.assumable => ret.kind = "raise")

\* C17 witness: the profile is not found and STS refuses the role.
C17_Witness ==
    /\ op = "create_session"
    /\ calls[1].role = "audit"
    /\ "audit" \notin aws.profiles
    /\ Len(calls) = 3
    /\ ret.kind = "raise"

-----------------------------------------------------------------------------
(* utils.json_datetime_converter: the inventory as JSON text. A python     *)
(* value is [type, value]; a text is the sequence of its JSON tokens.      *)

MaxRecords == 2      \* resource records of the document serialised (SpecJson)
MaxDumps == 2        \* serialisations of one document and of its reloads (SpecJson)

PyNone == [type |-> "NoneType", value |-> <<>>]
PyStr(pieces) == [type |-> "str", value |-> pieces]
PyInt(n) == [type |-> "int", value |-> n]
PyBytes(pieces) == [type |-> "bytes", value |-> pieces]
PyList(elems) == [type |-> "list", value |-> elems]
\* a dict: its items, in insertion order
PyDict(items) == [type |-> "dict", value |-> items]
Item(key, value) == [key |-> key, value |-> value]
\* datetime.datetime: date, time and UTC offset ("" for a naive datetime)
PyDatetime(date, time, tz) == [type |-> "datetime", value |-> <<date, time, tz>>]

isinstance(o, type) == o.type = type

\* dt.__str__(): isoformat(sep=' ')
datetime_str(dt) == PyStr(<<dt.value[1], " ", dt.value[2], dt.value[3]>>)

\* a faulty variant of datetime_converter: nothing is converted
datetime_converter_none(dt) == PyNone

datetime_converter(dt) ==
    IF isinstance(dt, "datetime") THEN datetime_str(dt) ELSE PyNone

Tok(tok, v) == [tok |-> tok, v |-> v]
Punct(c) == Tok(c, <<>>)

\* the texts of `parts`, separated by ", "
RECURSIVE Joined(_)
Joined(parts) ==
    IF parts = <<>> THEN <<>>
    ELSE IF Len(parts) = 1 THEN parts[1]
    ELSE parts[1] \o <<Punct(",")>> \o Joined(Tail(parts))

\* json.dumps(o, default=datetime_converter)
RECURSIVE dumps(_)
dumps(o) ==
    CASE isinstance(o, "dict") ->
            <<Punct("{")>> \o
            Joined([i \in DOMAIN o.value |->
                       <<Tok("str", <<o.value[i].key>>), Punct(":")>> \o
                       dumps(o.value[i].value)]) \o
            <<Punct("}")>>
      [] isinstance(o, "list") ->
            <<Punct("[")>> \o Joined([i \in DOMAIN o.value |-> dumps(o.value[i])]) \o
            <<Punct("]")>>
      [] isinstance(o, "str") -> <<Tok("str", o.value)>>
      [] isinstance(o, "int") -> <<Tok("int", <<o.value>>)>>
      [] isinstance(o, "NoneType") -> <<Punct("null")>>
      [] OTHER -> dumps(datetime_converter(o))

json_datetime_converter(json_text) == dumps(json_text)

\* json.loads(text): the value read at position i and the position after it
RECURSIVE parse(_, _)
RECURSIVE parse_elements(_, _, _)
RECURSIVE parse_members(_, _, _)
parse(text, i) ==
    CASE text[i].tok = "{" ->
            IF text[i + 1].tok = "}"
            THEN [value |-> PyDict(<<>>), next |-> i + 2]
            ELSE parse_members(text, i + 1, <<>>)
      [] text[i].tok = "[" ->
            IF text[i + 1].tok = "]"
            THEN [value |-> PyList(<<>>), next |-> i + 2]
            ELSE parse_elements(text, i + 1, <<>>)
      [] text[i].tok = "str" -> [value |-> PyStr(text[i].v), next |-> i + 1]
      [] text[i].tok = "int" -> [value |-> PyInt(text[i].v[1]), next |-> i + 1]
      [] text[i].tok = "null" -> [value |-> PyNone, next |-> i + 1]

parse_elements(text, i, elems) ==
    LET e == parse(text, i)
        after(value, next) ==
            IF text[next].tok = ","
            THEN parse_elements(text, next + 1, Append(elems, value))
            ELSE [value |-> PyList(Append(elems, value)), next |-> next + 1]
    IN  after(e.value, e.next)

parse_members(text, i, items) ==
    LET key == text[i].v[1]
        m == parse(text, i + 2)
        after(value, next) ==
            IF text[next].tok = ","
            THEN parse_members(text, next + 1, Append(items, Item(key, value)))
            ELSE [value |-> PyDict(Append(items, Item(key, value))), next |-> next + 1]
    IN  after(m.value, m.next)

loads(text) == parse(text, 1).value

JsonDatetimeConverter ==
    /\ op \in {"idle", "json.loads"}
    /\ Len(calls) < MaxDumps
    /\ LET text == json_datetime_converter(IF op = "idle" THEN aws.document ELSE ret.val)
       IN  /\ op' = "json_datetime_converter"
           /\ ret' = [kind |-> "text", val |-> text, types |-> EmptyDict]
           /\ calls' = Append(calls, text)
    /\ UNCHANGED <<aws, selected_regions, nb_regions, nb_units_done, listed,
                   sessions, created>>

JsonLoads ==
    /\ op = "json_datetime_converter"
    /\ op' = "json.loads"
    /\ ret' = [kind |-> "document", val |-> loads(ret.val), types |-> EmptyDict]
    /\ UNCHANGED <<aws, selected_regions, nb_regions, nb_units_done, listed, calls,
                   sessions, created>>

\* the times a record can hold: none, a naive datetime, a datetime in UTC
Times ==
    {PyNone,
     PyDatetime("2024-02-29", "23:59:59.000123", ""),
     PyDatetime("2024-02-29", "23:59:59", "+00:00")}

RecordShapes == [created : Times, attached : Times, blob : BOOLEAN]

\* a resource record as an API returns it
ResourceRecord(shape) ==
    PyDict(<<Item("Name", PyStr(<<"vol-1">>)), Item("Size", PyInt(8))>> \o
           (IF isinstance(shape.created, "NoneType") THEN <<>>
            ELSE <<Item("CreateTime", shape.created)>>) \o
           (IF isinstance(shape.attached, "NoneType") THEN <<Item("Attachments", PyList(<<>>))>>
            ELSE <<Item("Attachments",
                        PyList(<<PyDict(<<Item("AttachTime", shape.attached),
                                          Item("State", PyStr(<<"attached">>))>>)>>))>>) \o
           (IF shape.blob THEN <<Item("Checksum", PyBytes(<<"0a">>))>> ELSE <<>>))

InitJson ==
    /\ aws \in {[document |-> PyList([i \in DOMAIN shapes |-> ResourceRecord(shapes[i])])] :
                  shapes \in UNION {[1..n -> RecordShapes] : n \in 0..MaxRecords}}
    /\ selected_regions = <<>>
    /\ nb_regions = 0
    /\ nb_units_done = 0
    /\ op = "idle"
    /\ ret = [kind |-> "idle", val |-> None, types |-> EmptyDict]
    /\ listed = <<>>
    /\ calls = <<>>
    /\ sessions = EmptyDict
    /\ created = <<>>

NextJson == JsonDatetimeConverter \/ JsonLoads

SpecJson == InitJson /\ [][NextJson]_vars

\* the value o holds a datetime
RECURSIVE HasDatetime(_)
HasDatetime(o) ==
    CASE isinstance(o, "datetime") -> TRUE
      [] isinstance(o, "list") -> \E i \in DOMAIN o.value : HasDatetime(o.value[i])
      [] isinstance(o, "dict") -> \E i \in DOMAIN o.value : HasDatetime(o.value[i].value)
      [] OTHER -> FALSE

\* o with the string form of every datetime in its place
RECURSIVE Stringified(_)
Stringified(o) ==
    CASE isinstance(o, "datetime") -> datetime_str(o)
      [] isinstance(o, "bytes") -> PyNone
      [] isinstance(o, "list") -> PyList([i \in DOMAIN o.value |-> Stringified(o.value[i])])
      [] isinstance(o, "dict") ->
            PyDict([i \in DOMAIN o.value |->
                       Item(o.value[i].key, Stringified(o.value[i].value))])
      [] OTHER -> o

\* C18: the document read back from the text json_datetime_converter wrote
\* holds, in place of each timestamp, its string form and no datetime, and
\* serialising the document read back gives the same text again.
C18_TimestampsBecomeStrings ==
    /\ op = "json.loads" =>
          /\ ret.val = Stringified(aws.document)
          /\ ~HasDatetime(ret.val)
    /\ Len(calls) >= 2 => calls[2] = calls[1]

\* C18 witness: a document with a timestamp was written, read back and
\* written again.
C18_Witness ==
    /\ op = "json_datetime_converter"
    /\ Len(calls) = 2
    /\ HasDatetime(aws.document)
    /\ \E i \in DOMAIN ret.val : ret.val[i] = Tok("str", <<"2024-02-29", " ", "23:59:59", "+00:00">>)

-----------------------------------------------------------------------------
\* C19: an inventory function that calls the enumerator once advances
\* nb_units_done by one unit per selected region, whether the call is a
\* global one or a per-region one, for every selection of regions.
C19_SameAdvanceGlobalOrRegional ==
    (Len(listed) = 1 /\ ret.kind # "raise") => nb_units_done = Len(selected_regions)

-----------------------------------------------------------------------------
(* utils.check_arguments: the command line, checked and normalised. *)

MaxArgs == 2         \* values given to --services (SpecArgs)

\* the names config holds
SUPPORTED_COMMANDS == {"ec2", "s3", "rds"}
SUPPORTED_PARAMETERS == {"debug"}

\* str.lower() on the words of the command lines tried
lower(word) ==
    CASE word = "EC2" -> "ec2"
      [] word = "S3" -> "s3"
      [] word = "Debug" -> "debug"
      [] word = "Lambda" -> "lambda"
      [] word = "Audit" -> "audit"
      [] word = "US-WEST-2" -> "us-west-2"
      [] OTHER -> word

\* a faulty variant of checked: an unknown word is left out, the others kept
RECURSIVE checked_skipping(_, _, _)
checked_skipping(words, known, kept) ==
    IF words = <<>> THEN [exit |-> FALSE, kept |-> kept, word |-> ""]
    ELSE IF lower(Head(words)) \notin known
         THEN checked_skipping(Tail(words), known, kept)
         ELSE checked_skipping(Tail(words), known, Append(kept, lower(Head(words))))

\* the loops over args.services and args.regions: each word is lower-cased
\* and kept when known; the first unknown word ends the run with exit(1)
RECURSIVE checked(_, _, _)
checked(words, known, kept) ==
    IF words = <<>> THEN [exit |-> FALSE, kept |-> kept, word |-> ""]
    ELSE IF lower(Head(words)) \notin known
         THEN [exit |-> TRUE, kept |-> kept, word |-> Head(words)]
         ELSE checked(Tail(words), known, Append(kept, lower(Head(words))))

\* print(message) followed by exit(status)
Exit(status, cs, message) ==
    [kind |-> "exit", val |-> status, calls |-> cs, nb_regions |-> nb_regions,
     printed |-> message]

\* a faulty variant of check_regions: config.nb_regions counts the regions
\* selected, and unknown region names are left out
check_regions_selected_only(args, profile_name, services, regions) ==
    IF regions.kind = "raise"
    THEN [kind |-> "raise", val |-> regions.val, calls |-> regions.calls,
          nb_regions |-> nb_regions, printed |-> <<>>]
    ELSE LET known_regions_list == {regions.val[i].RegionName : i \in DOMAIN regions.val}
             selected == checked_skipping(args.regions, known_regions_list, <<>>)
         IN  [kind |-> "tuple",
              val |-> [profile |-> profile_name, services |-> services,
                       selected_regions |-> selected.kept],
              calls |-> regions.calls, nb_regions |-> Len(selected.kept),
              printed |-> <<>>]

\* from the call of get_aws_regions on
check_regions(args, profile_name, services, regions) ==
    IF regions.kind = "raise"
    THEN [kind |-> "raise", val |-> regions.val, calls |-> regions.calls,
          nb_regions |-> nb_regions, printed |-> <<>>]
    ELSE LET known_regions_list == {regions.val[i].RegionName : i \in DOMAIN regions.val}
             selected == checked(args.regions, known_regions_list, <<>>)
         IN  IF selected.exit
             THEN [Exit(1, regions.calls, <<"Unknown region", lower(selected.word)>>)
                      EXCEPT !.nb_regions = Len(regions.val)]
             ELSE [kind |-> "tuple",
                   val |-> [profile |-> profile_name, services |-> services,
                            selected_regions |-> selected.kept],
                   calls |-> regions.calls, nb_regions |-> Len(regions.val),
                   printed |-> <<>>]

\* a faulty variant of check_services: the regions are discovered before the
\* services are checked
check_services_regions_first(args, profile_name) ==
    LET services == checked(args.services,
                            SUPPORTED_COMMANDS \cup SUPPORTED_PARAMETERS, <<>>)
        regions == get_aws_regions(profile_name)
    IN  IF services.exit
        THEN Exit(1, regions.calls, <<"Unknown argument", services.word>>)
        ELSE check_regions(args, profile_name, services.kept, regions)

\* from the loop over args.services on
check_services(args, profile_name) ==
    LET services == checked(args.services,
                            SUPPORTED_COMMANDS \cup SUPPORTED_PARAMETERS, <<>>)
    IN  IF services.exit THEN Exit(1, <<>>, <<"Unknown argument", services.word>>)
        ELSE check_regions(args, profile_name, services.kept,
                           get_aws_regions(profile_name))

LogLevels == {"debug", "info", "warning", "error"}

check_arguments(args) ==
    LET log_level == lower(args.log)
        profile_name == IF lower(args.profile) = "default" THEN None
                        ELSE lower(args.profile)
    IN  IF log_level \notin LogLevels
        THEN Exit(1, <<>>, <<"Unknown argument for log level", args.log>>)
        ELSE IF ~resolves(profile_name)
        THEN Exit(1, <<>>, <<"Profile name not found", profile_name>>)
        ELSE check_services(args, profile_name)

CheckArguments ==
    /\ op = "idle"
    /\ LET h == check_arguments(aws.args)
       IN  /\ op' = "check_arguments"
           /\ ret' = [kind |-> h.kind, val |-> h.val, types |-> EmptyDict,
                      printed |-> h.printed]
           /\ calls' = h.calls
           /\ nb_regions' = h.nb_regions
           /\ selected_regions' = IF h.kind = "tuple" THEN h.val.selected_regions
                                  ELSE selected_regions
    /\ UNCHANGED <<aws, nb_units_done, listed, sessions, created>>

ServiceWords == {"ec2", "EC2", "S3", "Debug", "Lambda"}

RECURSIVE WordLists(_, _)
WordLists(words, n) ==
    IF n = 0 THEN {<<>>}
    ELSE WordLists(words, n - 1) \cup
         {Append(l, w) : l \in {l \in WordLists(words, n - 1) : Len(l) = n - 1}, w \in words}

CommandLines ==
    [profile : {"default", "Audit"}, log : {"error", "Debug", "verbose"},
     services : WordLists(ServiceWords, MaxArgs),
     regions : WordLists({"us-east-1", "US-WEST-2", "eu-west-9"}, MaxArgs)]

InitArgs ==
    /\ aws \in {[args |-> a,
                 Regions |-> <<[RegionName |-> "us-east-1", OptInStatus |-> "opt-in-not-required"],
                               [RegionName |-> "us-west-2", OptInStatus |-> o]>>,
                 colors |-> ColorPool, denied |-> d, profiles |-> p] :
                  a \in CommandLines, o \in {"opted-in", "not-opted-in"},
                  d \in {{}, {"us-west-2"}}, p \in {{}, {"audit"}}}
    /\ selected_regions = <<>>
    /\ nb_regions = 0
    /\ nb_units_done = 0
    /\ op = "idle"
    /\ ret = [kind |-> "idle", val |-> None, types |-> EmptyDict]
    /\ listed = <<>>
    /\ calls = <<>>
    /\ sessions = EmptyDict
    /\ created = <<>>

NextArgs == CheckArguments

SpecArgs == InitArgs /\ [][NextArgs]_vars

-----------------------------------------------------------------------------
(* Order and completeness of what the tag post-passes return. *)

\* the region and the resource of each record, in order
KeysOf(recs) == [i \in 1..Len(recs) |-> <<recs[i].RegionName, NameOf(recs[i])>>]

\* the position of a region in the iteration of the regions queried
IterationIndex(r) ==
    IF r = "global" THEN 1
    ELSE CHOOSE i \in DOMAIN selected_regions : selected_regions[i] = r

\* the inventory functions whose tag post-pass groups the records by region
GroupedOps ==
    {"get_dynamodb_inventory", "get_elasticache_inventory_clusters", "get_sqs_inventory",
     "get_sns_inventory_topics", "get_elb_inventory", "get_elbv2_inventory"}

LastRegionOps == {"get_es_inventory", "get_kinesis_inventory"}

\* s is t with some elements left out
IsSubSeq(s, t) ==
    \E f \in [DOMAIN s -> DOMAIN t] :
        /\ \A i \in DOMAIN s : s[i] = t[f[i]]
        /\ \A i, j \in DOMAIN s : i < j => f[i] < f[j]

\* C21: the records of an enumeration are those of the regions in iteration
\* order, each region's records in the order its listing gave them; a tag
\* post-pass that groups by region returns the records in that same order,
\* and every tag post-pass returns the records of a region next to one
\* another, in their listing order.
C21_OrderKept ==
    /\ \A k \in DOMAIN listed :
          /\ \A i, j \in DOMAIN listed[k] :
                i < j => IterationIndex(listed[k][i].RegionName)
                            <= IterationIndex(listed[k][j].RegionName)
          /\ FullListing(k) =>
                \A r \in Queried : NamesOf(OfRegion(listed[k], r)) = aws.items[r]
    /\ (op \in GroupedOps /\ ret.kind = "list") => KeysOf(ret.val) = KeysOf(listed[1])
    /\ (op \in LastRegionOps /\ ret.kind = "list") =>
          /\ IsSubSeq(KeysOf(ret.val), KeysOf(listed[1]))
          /\ \A i, j \in DOMAIN ret.val :
                (i < j /\ ret.val[i].RegionName = ret.val[j].RegionName) =>
                    \A m \in i..j : ret.val[m].RegionName = ret.val[i].RegionName

\* C21 witness: tables listed in two regions, selected in the order
\* us-east-1, eu-west-1, two tables in each.
C21_Witness ==
    /\ op = "get_dynamodb_inventory"
    /\ selected_regions = <<"us-east-1", "eu-west-1">>
    /\ Len(aws.items["us-east-1"]) = 2
    /\ Len(aws.items["eu-west-1"]) = 2
    /\ ret.kind = "list"
    /\ [i \in 1..Len(ret.val) |-> ret.val[i].RegionName] =
          <<"us-east-1", "us-east-1", "eu-west-1", "eu-west-1">>

\* the field a tag post-pass sets
TagField ==
    IF op \in {"get_es_inventory", "get_elasticache_inventory_clusters"} THEN "TagList"
    ELSE "Tags"

\* C22: get_es_inventory and get_kinesis_inventory return every record the
\* enumerator listed, of every region, once each, with its tag field set.
C22_LastRegionOpsReturnAll ==
    (op \in LastRegionOps /\ ret.kind = "list") =>
        /\ KeysOf(ret.val) = KeysOf(listed[1])
        /\ \A i \in DOMAIN ret.val : Has(ret.val[i], TagField)

\* the inventory functions with a tag post-pass over all they listed
TagOps == GroupedOps \cup {"get_cloudfront_inventory", "get_route53_inventory_zones"}

\* a record without the field the tag post-pass sets
WithoutTags(rec) == [f \in DOMAIN rec \ {TagField} |-> rec[f]]

\* C23: the tag post-pass of the DynamoDB, SQS, SNS-topic, ElastiCache-cluster,
\* CloudFront, Route 53-zone and ELB/ELBv2 inventory functions returns the
\* records the enumerator listed, each once, and but for the Tags / TagList
\* field each returned record is the listed one.
C23_OnlyTagsAdded ==
    (op \in TagOps /\ ret.kind = "list") =>
        /\ Len(ret.val) = Len(listed[1])
        /\ \A i \in DOMAIN ret.val :
              /\ WithoutTags(ret.val[i]) = listed[1][i]
              /\ ~Has(listed[1][i], TagField)

\* C23 witness: ELBv2 load balancers listed in two regions, one of them
\* tagged and another one not.
C23_Witness ==
    /\ op = "get_elbv2_inventory"
    /\ ret.kind = "list"
    /\ \E i, j \in DOMAIN ret.val :
          /\ ret.val[i].RegionName # ret.val[j].RegionName
          /\ Has(ret.val[i], "Tags")
          /\ ~Has(ret.val[j], "Tags")

\* the clients the tag post-pass opened, and the region each was opened for
ClientRegions ==
    LET opened == SelectSeq(calls, LAMBDA c : c.api = "client")
    IN  [i \in 1..Len(opened) |-> opened[i].region]

\* the region of the client open when the i-th call was issued
ClientAt(i) ==
    LET before == {j \in 1..i : calls[j].api = "client"}
    IN  calls[CHOOSE j \in before : \A k \in before : k <= j].region

IsTagCall(c) == Has(c, "arg") \/ Has(c, "ids")

\* C24: in the tag post-pass of a regional inventory function one client is
\* opened for each region that holds listed records, every tag call is sent
\* through the client of the region it is about, and the tags a returned
\* record holds are those its resource has in the record's own region, also
\* when a resource of the same name exists in another region.
C24_TagsFromOwnRegion ==
    (op \in GroupedOps \cup LastRegionOps /\ ret.kind = "list") =>
        /\ Range(ClientRegions) = {listed[1][i].RegionName : i \in DOMAIN listed[1]}
        /\ \A i, j \in DOMAIN ClientRegions : ClientRegions[i] = ClientRegions[j] => i = j
        /\ \A i \in DOMAIN calls : IsTagCall(calls[i]) => calls[i].region = ClientAt(i)
        /\ \A i \in DOMAIN ret.val :
              Has(ret.val[i], TagField) =>
                  ret.val[i][TagField] \in
                      {<<>>, TagsOf(ret.val[i].RegionName, NameOf(ret.val[i]))}

\* C24 witness: a load balancer of the same name in each of two regions,
\* each returned with the tags it has in its own region.
C24_Witness ==
    /\ op = "get_elb_inventory"
    /\ ret.kind = "list"
    /\ \E i, j \in DOMAIN ret.val :
          /\ ret.val[i].RegionName # ret.val[j].RegionName
          /\ ret.val[i].LoadBalancerName = ret.val[j].LoadBalancerName
          /\ ret.val[i].Tags = TagsOf(ret.val[i].RegionName, ret.val[i].LoadBalancerName)
          /\ ret.val[j].Tags = TagsOf(ret.val[j].RegionName, ret.val[j].LoadBalancerName)

-----------------------------------------------------------------------------
(* get_emr_inventory *)

\* the entry of the listed cluster c under 'clusters': its detail, with its
\* instance fleets and instance groups
HoldsCluster(clusters, c) ==
    \E j \in DOMAIN clusters :
        /\ Has(clusters[j], "Id") /\ clusters[j]["Id"] = c.Id
        /\ Has(clusters[j], "RegionName") /\ clusters[j]["RegionName"] = c.RegionName
        /\ Has(clusters[j], "fleets")
        /\ Has(clusters[j], "instance_groups")

\* C25: get_emr_inventory returns under 'clusters' an entry for every listed
\* cluster, holding the detail of the cluster, its instance fleets and its
\* instance groups.
C25_EveryClusterReturned ==
    (op = "get_emr_inventory" /\ ret.kind = "dict" /\ Len(listed[1]) > 0) =>
        /\ ret.types["clusters"] = "list"
        /\ \A i \in DOMAIN listed[1] : HoldsCluster(ret.val["clusters"], listed[1][i])

\* C26: get_emr_inventory advances nb_units_done by the same total whatever
\* the number of clusters listed: the total of a run that lists no cluster,
\* one enumeration of the selected regions and 2 x nb_regions for the two
\* enumerations it skips.
C26_SameProgressAnyClusters ==
    (op = "get_emr_inventory" /\ ret.kind = "dict") =>
        nb_units_done = Len(selected_regions) + 2 * nb_regions

-----------------------------------------------------------------------------
(* check_arguments: the regions, and the order of the checks. *)

KnownRegions == {aws.Regions[i].RegionName : i \in DOMAIN aws.Regions}

\* C27: the regions check_arguments returns are the lower-cased values of
\* --regions, in their order, each one the RegionName of a region that
\* get_aws_regions returned; an unknown region name ends the run with exit
\* status 1; and config.nb_regions is the number of regions get_aws_regions
\* returned, whatever the number selected.
C27_RegionsKnown ==
    op = "check_arguments" =>
        /\ ret.kind = "tuple" =>
              /\ ret.val.selected_regions =
                    [i \in DOMAIN aws.args.regions |-> lower(aws.args.regions[i])]
              /\ \A i \in DOMAIN ret.val.selected_regions :
                    ret.val.selected_regions[i] \in KnownRegions
              /\ selected_regions = ret.val.selected_regions
              /\ nb_regions = Len(aws.Regions)
        /\ ((\E i \in DOMAIN aws.args.regions : lower(aws.args.regions[i]) \notin KnownRegions)
               /\ ret.kind # "raise") =>
              (ret.kind = "exit" /\ ret.val = 1)
        /\ (calls # <<>> /\ ret.kind = "exit") => nb_regions = Len(aws.Regions)

\* C27 witness: --regions US-WEST-2 in an account of two regions.
C27_Witness ==
    /\ op = "check_arguments"
    /\ aws.args.regions = <<"US-WEST-2">>
    /\ ret.kind = "tuple"
    /\ ret.val.selected_regions = <<"us-west-2">>
    /\ nb_regions = 2

ProfileOf(args) == IF lower(args.profile) = "default" THEN None ELSE lower(args.profile)

LogAccepted == lower(aws.args.log) \in LogLevels

ProfileAccepted == ProfileOf(aws.args) = None \/ ProfileOf(aws.args) \in aws.profiles

ServicesAccepted ==
    \A i \in DOMAIN aws.args.services :
        lower(aws.args.services[i]) \in SUPPORTED_COMMANDS \cup SUPPORTED_PARAMETERS

\* C28: check_arguments rejects an invalid log level, then an unknown
\* profile, then an unknown service name, each with exit status 1 and before
\* any call to EC2; the regions are discovered only once the log level, the
\* profile and every service were accepted, and a region name is rejected only
\* after describe_regions was called.
C28_ChecksInOrder ==
    op = "check_arguments" =>
        /\ ~LogAccepted =>
              /\ ret.kind = "exit" /\ ret.val = 1 /\ calls = <<>>
              /\ ret.printed = <<"Unknown argument for log level", aws.args.log>>
        /\ (LogAccepted /\ ~ProfileAccepted) =>
              /\ ret.kind = "exit" /\ ret.val = 1 /\ calls = <<>>
              /\ ret.printed[1] = "Profile name not found"
        /\ (LogAccepted /\ ProfileAccepted /\ ~ServicesAccepted) =>
              /\ ret.kind = "exit" /\ ret.val = 1 /\ calls = <<>>
              /\ ret.printed[1] = "Unknown argument"
        /\ calls # <<>> => (LogAccepted /\ ProfileAccepted /\ ServicesAccepted)
        /\ (LogAccepted /\ ProfileAccepted /\ ServicesAccepted) =>
              /\ calls # <<>>
              /\ calls[1].api = "describe_regions"
        /\ (ret.kind = "exit" /\ ret.printed[1] = "Unknown region") =>
              /\ calls # <<>>
              /\ calls[1].api = "describe_regions"
              /\ nb_regions = Len(aws.Regions)

\* C28 witness: an invalid log level, an unknown profile and an unknown
\* service together: the log level is the one reported, and EC2 was not called.
C28_Witness ==
    /\ op = "check_arguments"
    /\ ~LogAccepted /\ ~ProfileAccepted /\ ~ServicesAccepted
    /\ ret.kind = "exit"
    /\ ret.printed[1] = "Unknown argument for log level"
    /\ calls = <<>>

====
